---- MODULE Spec2Model ----
(***************************************************************************)
(* Job dispatch and streaming-result fabric of the LXP PoC platform.      *)
(*                                                                         *)
(* Several specifications are given over one set of variables:            *)
(*   Spec        - the task fabric with its faults: tasks routed through   *)
(*                 ai.tasks into the function queues, the generic worker   *)
(*                 (handle_message), the simulation worker                 *)
(*                 (SimulationWorker), worker crashes and refused          *)
(*                 publishes, the exchanges ai.results and chat.responses. *)
(*   SpecSse     - the fault-free task fabric with the two SSE bridges     *)
(*                 (/events/jobs/{job_id}, /sales/stream/{session_id});    *)
(*                 FairSse adds the scheduling of workers and bridges.     *)
(*   SpecChat    - the streaming chat of the sales backend: /sales/chat,   *)
(*                 consume_chat_messages / handle_chat_message,            *)
(*                 /chat/initiate and the Redis session store.             *)
(*   SpecChatSse - the chat backend with the session SSE bridge.           *)
(*   SpecTurn    - the chat turns of the backend on their own: /sales/chat *)
(*                 and handle_chat_message.                                *)
(*   SpecDlx     - the generic worker with refused publishes: acks and    *)
(*                 rejects to the dead-letter exchange.                    *)
(*   SpecRoute   - the routing of ai.tasks under the bindings declared by  *)
(*                 the API and by the workers.                             *)
(*   SpecRun     - the life of a worker process: configured prefetch,      *)
(*                 shutdown signal, closing of the channel.                *)
(*   SpecClose   - the close check (/autoclose) on the histories that      *)
(*                 chat turns leave in the session store.                  *)
(*   SpecBridge  - the SSE bridges with bodies on the exchanges that are   *)
(*                 not JSON.                                               *)
(*   SpecIndex   - ensure_indexes on the vectorstore collections an        *)
(*                 earlier deployment may have left.                       *)
(*   SpecFiles   - POST /files/upload, interleaved, with the indexing of   *)
(*                 vectorstores into Qdrant.                               *)
(*   SpecEnqueue - POST /coach (enqueue, publish_task) with the worker of  *)
(*                 q.coach behind it.                                      *)
(*   SpecVendor  - the simulation worker on sim.chat tasks whose model     *)
(*                 call may fail.                                          *)
(*   SpecRag     - /rag/query (answer_with_rag) on vectorstores that are   *)
(*                 indexed meanwhile.                                      *)
(*   SpecPersist - the simulation worker on sim.chat tasks with a Redis    *)
(*                 write that may be refused.                              *)
(*   SpecStored  - the simulation worker on sim.start and sim.chat tasks   *)
(*                 with every fault of a turn.                             *)
(*   SpecSim     - the simulation worker on every kind of message q.sim    *)
(*                 can hold.                                               *)
(*   SpecAssist  - the AI_Assist worker: assist_run and handle_message.    *)
(*   SpecTts     - chat turns of the backend with a /tts/live stream;      *)
(*                 FairTts adds the scheduling of handlers and stream.     *)
(*   SpecLag     - a session SSE bridge whose client stops reading.        *)
(*                                                                         *)
(* Text is modelled as a sequence of tokens; the tokens that the code      *)
(* inspects (role prefixes, whitespace, quotes, the end-of-conversation    *)
(* marker) are distinct tokens, everything else is the token "w".          *)
(***************************************************************************)
EXTENDS Integers, Sequences, FiniteSets, Bags, TLC

\* ------------------------------------------------------------------ bounds
MaxJobs == 2
MaxCrashes == 1
MaxPubFail == 1
MaxTurns == 2
MaxInits == 1
MaxCloseTurns == 6
MaxReqs == 2
MaxUploads == 2
MaxNotJson == 1
MaxFiles == 2
MaxQueries == 2
MaxTopK == 2

\* ------------------------------------------------------- program constants
WORKER_PREFETCH == 8
CHAT_PREFETCH == 10
MIN_DIALOGUE_LENGTH == 12

\* -------------------------------------------------------------- text model
SP == "SP"
QUOTE == "QUOTE"
P_CUST == "P_CUST"
P_CUSTME == "P_CUSTME"
P_AI == "AI:"
P_RESP == "P_RESP"
P_SELLER == "SELLER:"
END_TOKEN == "END"
FAIL_TOKEN == "FAIL"
WORD == "w"

RECURSIVE LStrip(_)
LStrip(s) == IF s # <<>> /\ Head(s) = SP THEN LStrip(Tail(s)) ELSE s

RECURSIVE RStrip(_)
RStrip(s) ==
    IF s # <<>> /\ s[Len(s)] = SP THEN RStrip(SubSeq(s, 1, Len(s) - 1)) ELSE s

\* str.strip()
Strip(s) == RStrip(LStrip(s))

\* full.startswith(prefix) ... full = full[len(prefix):].strip()
StripPrefix(s, p) == IF s # <<>> /\ Head(s) = p THEN Strip(Tail(s)) ELSE s

\* for prefix in ["고객:", "고객(나):", "AI:", "응답:"]
StripPrefixes(s) ==
    StripPrefix(StripPrefix(StripPrefix(StripPrefix(s, P_CUST), P_CUSTME), P_AI), P_RESP)

\* reply.replace('"', '').replace("'", '')
RemoveQuotes(s) == SelectSeq(s, LAMBDA t : t # QUOTE)

\* tok in s
Contains(s, tok) == \E i \in 1..Len(s) : s[i] = tok

RoleToken(role) == IF role = "AI" THEN P_AI ELSE P_SELLER

\* f"{role}: {content}"
HistoryEntry(role, content) == <<RoleToken(role), SP>> \o content

\* self.history.append(f"{role}: {content}")
AppendHistory(history, role, content) == Append(history, HistoryEntry(role, content))

\* what the model may return (.text), or an exception
NoReply == <<"RAISE">>
LLMReplies == { <<WORD>>, <<P_AI, SP, WORD>>, <<WORD, END_TOKEN>> }
LLMOutcomes == LLMReplies \cup {NoReply}

\* the reply of one turn: model output stripped, or the synthetic failure text
TurnReply(out) == IF out = NoReply THEN <<FAIL_TOKEN>> ELSE StripPrefixes(Strip(out))

\* stream_response yielding the model's text as generated, before the strips
StreamResponseRaw(history, seller_msg, out) ==
    [history |-> AppendHistory(AppendHistory(history, "SELLER", seller_msg),
                               "AI", TurnReply(out)),
     chunks |-> <<out>>]

\* stream_response without its except clause: a failing model call ends the
\* generator after the seller's message was appended, nothing is yielded
StreamResponseUnguarded(history, seller_msg, out) ==
    IF out = NoReply
    THEN [history |-> AppendHistory(history, "SELLER", seller_msg), chunks |-> <<>>]
    ELSE [history |-> AppendHistory(AppendHistory(history, "SELLER", seller_msg),
                                    "AI", TurnReply(out)),
          chunks |-> <<TurnReply(out)>>]

\* stream_response(seller_msg): the history after the turn and the chunks yielded
StreamResponse(history, seller_msg, out) ==
    [history |-> AppendHistory(AppendHistory(history, "SELLER", seller_msg),
                               "AI", TurnReply(out)),
     chunks |-> <<TurnReply(out)>>]

\* generate_first_greeting()
GreetingReplies == { <<WORD>>, <<QUOTE, WORD, QUOTE>> }
FirstGreeting(out) == RemoveQuotes(Strip(out))

\* a length test that also turns away a history of exactly the minimum
MaybeAutocloseAbove(history) ==
    IF Len(history) <= MIN_DIALOGUE_LENGTH THEN FALSE
    ELSE LET last == IF history # <<>> THEN history[Len(history)] ELSE <<>>
         IN Contains(last, P_AI) /\ Contains(last, END_TOKEN)

\* maybe_autoclose(): (should_close); on the closing branch the analysis and
\* the session log it writes do not change the answer
MaybeAutoclose(history) ==
    IF Len(history) < MIN_DIALOGUE_LENGTH THEN FALSE
    ELSE LET last == IF history # <<>> THEN history[Len(history)] ELSE <<>>
         IN Contains(last, P_AI) /\ Contains(last, END_TOKEN)

RECURSIVE Concat(_)
Concat(ss) == IF ss = <<>> THEN <<>> ELSE Head(ss) \o Concat(Tail(ss))

IsPrefix(a, b) == Len(a) <= Len(b) /\ SubSeq(b, 1, Len(a)) = a


\* --------------------------------------------------------------- topology
\* routing keys are sequences of words
STAR == "*"
HASH == "#"

RECURSIVE TopicMatch(_, _)
TopicMatch(pattern, key) ==
    IF pattern = <<>> THEN key = <<>>
    ELSE IF Head(pattern) = HASH
         THEN TopicMatch(Tail(pattern), key)
              \/ (key # <<>> /\ TopicMatch(pattern, Tail(key)))
    ELSE IF key = <<>> THEN FALSE
    ELSE (Head(pattern) = STAR \/ Head(pattern) = Head(key))
         /\ TopicMatch(Tail(pattern), Tail(key))

Q_ASSIST == "q.assist"
Q_GALAXY == "q.galaxy"
Q_COACH == "q.coach"
Q_TRANSLATE == "q.translate"
Q_SIM == "q.sim.control"
Queues == {Q_ASSIST, Q_GALAXY, Q_COACH, Q_TRANSLATE, Q_SIM}

\* bindings declared by the workers (_declare_topology)
WorkerBindings ==
    [q \in Queues |->
        CASE q = Q_ASSIST -> {<<"assist", STAR>>}
          [] q = Q_GALAXY -> {<<"galaxy", STAR>>}
          [] q = Q_COACH -> {<<"coach", STAR>>}
          [] q = Q_TRANSLATE -> {<<"translate", STAR>>}
          [] q = Q_SIM -> {<<"sim", STAR>>}]

\* bindings declared by the API (QUEUE_BINDINGS, ensure_topology)
QUEUE_BINDINGS ==
    [q \in Queues |->
        CASE q = Q_ASSIST -> {<<"assist", STAR>>}
          [] q = Q_GALAXY -> {<<"galaxy", STAR>>}
          [] q = Q_COACH -> {<<"coach", STAR>>}
          [] q = Q_TRANSLATE -> {<<"translate", STAR>>}
          [] q = Q_SIM -> {<<"sim", "control", STAR>>}]

\* the bindings of a broker on which only the API has declared
ApiBindings == QUEUE_BINDINGS

\* both declare on the same broker: a queue keeps every binding declared
Bindings == [q \in Queues |-> WorkerBindings[q] \cup QUEUE_BINDINGS[q]]

\* the queues a message published to ai.tasks with this key is copied to
Route(rk) == {q \in Queues : \E p \in Bindings[q] : TopicMatch(p, rk)}

\* ------------------------------------------------------------- task model
JobIds == 1..MaxJobs
NoJob == 0
Sessions == {"s1", "s2"}
NoSession == "none"
\* a Redis key: absent, or the JSON of to_dict() (its history is what matters)
NoState == [present |-> FALSE, history |-> <<>>]
Stored(history) == [present |-> TRUE, history |-> history]
SellerMsgs == { <<WORD>> }

\* routing keys of the tasks submitted: coach.request (routes/coach.py),
\* assist.qa, sim.start and sim.chat
RK_COACH == <<"coach", "request">>
RK_ASSIST == <<"assist", "qa">>
RK_SIM_START == <<"sim", "start">>
RK_SIM_CHAT == <<"sim", "chat">>
TaskKeys == {RK_COACH, RK_ASSIST, RK_SIM_START, RK_SIM_CHAT}

\* the worker process consuming each queue
GenericQueues == {Q_COACH, Q_ASSIST}
ConsumedQueues == GenericQueues \cup {Q_SIM}

NoMsg == [job |-> NoJob, rk |-> <<>>, wf |-> FALSE, session |-> NoSession,
          seller |-> <<>>, redelivered |-> FALSE]

IdleHandler == [pc |-> "none", msg |-> NoMsg, queue |-> "none",
                ai |-> <<>>, chunk |-> <<>>, raised |-> FALSE]

SubIds == {"u1"}
IdleSub == [st |-> "idle", kind |-> "none", job |-> NoJob, session |-> NoSession,
            q |-> <<>>, sent |-> <<>>, bind |-> 0]

\* POST /coach requests; a JobResponse is (job_id, thread_id, status_url)
ReqIds == 1..MaxReqs
NoThread == 0
NoResponse == [status |-> 0, job_id |-> NoJob, thread_id |-> NoThread, status_url |-> NoJob]
IdleReq == [pc |-> "none", user_id |-> "none", sub_function |-> "none",
            thread_id |-> NoThread, job_id |-> NoJob, response |-> NoResponse]

\* vectorstore documents: the file_hash of each entry of `files`, in order
VsIds == {"v1", "v2", "v3"}
NoVs == "none"
NoDoc == [present |-> FALSE, files |-> <<>>]
Doc(files) == [present |-> TRUE, files |-> files]

\* POST /files/upload requests
UpIds == 1..MaxUploads
IdleUp == [pc |-> "none", hash |-> "none", target |-> NoVs, others |-> {},
           returned |-> NoVs, status |-> 0]

\* /rag/query: the calls made, the generate_content calls made by them, how
\* the retrieval of the last call went and what it answered
NoRag == [calls |-> 0, generations |-> 0, vectorstore_id |-> "none", top_k |-> 0,
          retrieval |-> "none", answer |-> "none", evidence |-> <<>>]

\* the worker processes: worker/main.py consumes its queues on one channel,
\* the simulation worker consumes q.sim.control
Workers == {"generic", "sim"}
WorkerOf(q) == IF q = Q_SIM THEN "sim" ELSE "generic"

\* no /autoclose request yet
NoAutoclose ==
    [called |-> FALSE, session |-> NoSession, found |-> FALSE, should_close |-> FALSE]

TurnIds == 1..MaxTurns
InitIds == 1..MaxInits

NoChatMsg == [id |-> 0, session |-> NoSession, seller |-> <<>>]

\* one execution of handle_chat_message: engine is the SalesPersonaAI loaded
\* by get_session, full_raw the chunks published so far
IdleTurn == [pc |-> "none", msg |-> NoChatMsg, engine |-> <<>>, full_raw |-> <<>>]

\* one request to /chat/initiate
IdleInit == [pc |-> "none", session |-> NoSession, ai |-> <<>>]

VARIABLES
    taskq,      \* queue name -> ready messages
    submitted,  \* job id -> the task message accepted into a queue for it
    h,          \* job id -> the handler execution of its current delivery
    acked,      \* job ids whose message was acknowledged
    dlq,        \* messages rejected without requeue (dead-lettered through ai.dlq)
    results,    \* payloads published on ai.results, in broker order
    chatResp,   \* payloads published on chat.responses, in broker order
    simStore,   \* Redis sim_session:<id> -> stored history
    subs,       \* SSE subscriber -> its exclusive queue and what it was sent
    crashes,    \* number of worker crashes so far
    pubFails    \* number of failed broker publishes so far

taskVars == <<taskq, submitted, h, acked, dlq, results, simStore>>
envVars == <<crashes, pubFails>>
fabricVars == <<taskq, submitted, h, acked, dlq, results, chatResp, simStore, subs,
                crashes, pubFails>>

VARIABLES
    chatq,      \* q.chat.messages: ready chat messages
    posted,     \* chat message id -> the message POST /sales/chat published
    ch,         \* chat message id -> the handle_chat_message execution for it
    ic,         \* initiate request id -> the /chat/initiate execution
    store,      \* Redis session:<id> -> stored state
    closedFlag, \* Redis session_closed:<id>
    ttsQueue,   \* Redis list tts_queue:<id>
    ttsDone     \* number of "done" published on tts_done_flag:<id>

chatVars == <<chatq, posted, ch, ic, store, closedFlag, ttsQueue, ttsDone>>

VARIABLES
    prefetch,   \* the prefetch_count the workers set on their channel
    phase,      \* worker process -> running, signalled (stop_event set) or closed
    ac          \* the last POST /autoclose request and its answer

runVars == <<prefetch, phase, ac>>

VARIABLES
    threads,    \* the threads collection of the institution database
    req,        \* request -> the POST /coach request being served
    vstore,     \* vectorstore document -> the file_hash values of its files
    vpoints,    \* vectorstore document -> its collection vs_<id>: point id -> file_hash of the payload
    up,         \* upload -> the POST /files/upload request being served
    uniq,       \* whether the unique index uniq_files_file_hash exists
    rag,        \* the last /rag/query call and its answer
    msgLog      \* the rows of message_logs (the analytics log)

VARIABLES
    assist,     \* job -> the call of assist_run made for it and what it returned
    idx,        \* the last answer of POST /vectorstores/{id}/index
    ctx,        \* job -> the recent messages get_context gave the last turn of the handler
    tts         \* the GET /tts/live/{session_id} stream: its position and what it sent

moreVars == <<assist, idx, ctx, tts>>
apiVars == <<threads, req, vstore, vpoints, up, uniq, rag, moreVars>>
vars == <<fabricVars, chatVars, runVars, apiVars, msgLog>>



\* ---------------------------------------------------------------- helpers
\* the broker refuses at most MaxPubFail publishes
PublishMay(ok) == ok \/ pubFails < MaxPubFail
CountFail(ok) == pubFails' = IF ok THEN pubFails ELSE pubFails + 1

\* a message body: json says whether json.loads accepts it; the publishers
\* of this repository send json.dumps(payload)
ResultPayload(rk, job, status, error) ==
    [rk |-> rk, job |-> job, status |-> status, error |-> error, json |-> TRUE]

ChatPayload(session, event, data) ==
    [session |-> session, event |-> event, data |-> data, json |-> TRUE]

\* bodies that are not JSON, as another program on the broker may publish
NotJsonResult == [ResultPayload("other", NoJob, "none", "none") EXCEPT !.json = FALSE]
NotJsonChat == [ChatPayload(NoSession, "none", <<>>) EXCEPT !.json = FALSE]

\* ai.results is a topic exchange; every job SSE queue is bound with "#"
FanResults(payload) ==
    [u \in SubIds |->
        IF subs[u].st = "open" /\ subs[u].kind = "job"
        THEN [subs[u] EXCEPT !.q = Append(@, payload)]
        ELSE subs[u]]

\* chat.responses is a fanout exchange: every bound queue gets a copy
FanChat(payload) ==
    [u \in SubIds |->
        IF subs[u].st = "open" /\ subs[u].kind = "session"
        THEN [subs[u] EXCEPT !.q = Append(@, payload)]
        ELSE subs[u]]

\* publish_result(channel, routing_key, payload)
PublishResult(ok, payload) ==
    /\ results' = IF ok THEN Append(results, payload) ELSE results
    /\ subs' = IF ok THEN FanResults(payload) ELSE subs

\* publish_chat_response(channel, session_id, chunk, event)
PublishChatResponse(ok, session, data, event) ==
    /\ chatResp' = IF ok THEN Append(chatResp, ChatPayload(session, event, data))
                   ELSE chatResp
    /\ subs' = IF ok THEN FanChat(ChatPayload(session, event, data)) ELSE subs

Active(j) == h[j].pc # "none"
HandlersOf(q) == {j \in JobIds : Active(j) /\ h[j].queue = q}

\* routing_key.endswith(".start") / (".chat")
EndsWith(rk, word) == Len(rk) >= 2 /\ rk[Len(rk)] = word

\* the code a delivery runs before its first await
FirstPcGeneric(msg) == IF ~msg.wf THEN "pub_invalid" ELSE "dispatch"

\* json.loads outside the try block of _on_message
FirstPcSimUncaught(msg) ==
    IF ~msg.wf THEN "reject"
    ELSE IF EndsWith(msg.rk, "start") THEN "sim_start"
    ELSE IF EndsWith(msg.rk, "chat")
         THEN (IF msg.seller = <<>> THEN "ack" ELSE "sim_get")
    ELSE "ack"

\* _on_message up to its first await: json.loads and the test of the routing
\* key inside try / except Exception
FirstPcSim(msg) ==
    IF ~msg.wf THEN "ack"
    ELSE IF EndsWith(msg.rk, "start") THEN "sim_start"
    ELSE IF EndsWith(msg.rk, "chat")
         THEN (IF msg.seller = <<>> THEN "ack" ELSE "sim_get")
    ELSE "ack"

FirstPc(q, msg) == IF q = Q_SIM THEN FirstPcSim(msg) ELSE FirstPcGeneric(msg)

\* ------------------------------------------------------------- dispatcher
\* publish_task(routing_key, payload): the message is copied to every queue
\* whose binding matches
PublishTask(j, rk, wf, s, seller) ==
    /\ submitted[j] = NoMsg
    /\ \A i \in JobIds : i < j => submitted[i] # NoMsg
    /\ LET msg == [job |-> j, rk |-> rk, wf |-> wf, session |-> s,
                   seller |-> seller, redelivered |-> FALSE]
       IN /\ taskq' = [q \in Queues |->
                        IF q \in Route(rk) THEN Append(taskq[q], msg) ELSE taskq[q]]
          /\ submitted' = [submitted EXCEPT ![j] = msg]
    /\ UNCHANGED <<h, acked, dlq, results, chatResp, simStore, subs, envVars, chatVars, runVars, apiVars, msgLog>>

\* the tasks the fabric carries: those whose key some binding matches
SubmitTask(j, rk, wf, s, seller) ==
    /\ Route(rk) # {}
    /\ PublishTask(j, rk, wf, s, seller)

Submit ==
    \E j \in JobIds, rk \in TaskKeys, wf \in BOOLEAN :
        IF Head(rk) = "sim"
        THEN \E s \in Sessions, seller \in SellerMsgs \cup {<<>>} :
                /\ (seller = <<>> => rk = RK_SIM_CHAT /\ wf)
                /\ (rk = RK_SIM_START => seller = <<WORD>>)
                /\ SubmitTask(j, rk, wf, s, seller)
        ELSE SubmitTask(j, rk, wf, NoSession, <<>>)

\* ----------------------------------------------------------------- broker
\* basic.deliver: the head of the queue goes to its consumer while that
\* consumer holds fewer than prefetch unacked messages (set_qos without
\* global_: RabbitMQ counts the limit for each consumer of the channel), as
\* long as the channel of the worker is open
Deliver(q) ==
    /\ q \in ConsumedQueues
    /\ taskq[q] # <<>>
    /\ phase[WorkerOf(q)] # "closed"
    /\ Cardinality(HandlersOf(q)) < prefetch
    /\ LET msg == Head(taskq[q])
       IN h' = [h EXCEPT ![msg.job] =
                    [pc |-> FirstPc(q, msg), msg |-> msg, queue |-> q,
                     ai |-> <<>>, chunk |-> <<>>, raised |-> FALSE]]
    /\ taskq' = [taskq EXCEPT ![q] = Tail(@)]
    /\ UNCHANGED <<submitted, acked, dlq, results, chatResp, simStore, subs, envVars, chatVars, runVars, apiVars, msgLog>>

\* message.process() exits normally: basic.ack
Ack(j) ==
    /\ h[j].pc = "ack"
    /\ acked' = acked \cup {j}
    /\ h' = [h EXCEPT ![j] = IdleHandler]
    /\ UNCHANGED <<taskq, submitted, dlq, results, chatResp, simStore, subs, envVars, chatVars, runVars, apiVars, msgLog>>

\* the queues bound to the fanout exchange ai.dlq: ensure_topology binds
\* q.dlq; _declare_topology declares q.<function>.dlq queues and binds none
Q_DLQ == "q.dlq"
DeadLetterQueues == {Q_DLQ}

\* a reject that returns the message to its queue
RejectRequeue(j) ==
    /\ h[j].pc = "reject"
    /\ taskq' = [taskq EXCEPT ![h[j].queue] =
                    <<[h[j].msg EXCEPT !.redelivered = TRUE]>> \o @]
    /\ h' = [h EXCEPT ![j] = IdleHandler]
    /\ UNCHANGED <<submitted, acked, dlq, results, chatResp, simStore, subs, envVars, chatVars, runVars, apiVars, msgLog>>

\* message.process(requeue=False) exits by exception: basic.reject, and the
\* queue's x-dead-letter-exchange sends the message to ai.dlq, which copies
\* it to the queues bound to it
Reject(j) ==
    /\ h[j].pc = "reject"
    /\ dlq' = IF Q_DLQ \in DeadLetterQueues THEN Append(dlq, h[j].msg) ELSE dlq
    /\ h' = [h EXCEPT ![j] = IdleHandler]
    /\ UNCHANGED <<taskq, submitted, acked, results, chatResp, simStore, subs, envVars, chatVars, runVars, apiVars, msgLog>>

RECURSIVE SeqOfJobs(_)
SeqOfJobs(S) ==
    IF S = {} THEN <<>>
    ELSE LET j == CHOOSE x \in S : \A y \in S : x <= y
         IN <<[h[j].msg EXCEPT !.redelivered = TRUE]>> \o SeqOfJobs(S \ {j})

\* the handlers running in worker process w
HandlersIn(w) == {j \in JobIds : Active(j) /\ WorkerOf(h[j].queue) = w}

\* the channel of worker process w closes: the broker requeues every unacked
\* message of it at the head of its queue, flagged redelivered, and the
\* handlers of the process are gone
Requeue(w) ==
    /\ taskq' = [q \in Queues |->
                    IF WorkerOf(q) = w THEN SeqOfJobs(HandlersOf(q)) \o taskq[q]
                    ELSE taskq[q]]
    /\ h' = [j \in JobIds |-> IF j \in HandlersIn(w) THEN IdleHandler ELSE h[j]]

\* worker process w dies with messages in flight
Crash(w) ==
    /\ crashes < MaxCrashes
    /\ HandlersIn(w) # {}
    /\ Requeue(w)
    /\ crashes' = crashes + 1
    /\ UNCHANGED <<submitted, acked, dlq, results, chatResp, simStore, subs, pubFails, chatVars, runVars, apiVars, msgLog>>

\* ------------------------------------------- handle_message (coach, assist)
SetPc(j, pc) == h' = [h EXCEPT ![j].pc = pc]

\* result = await recommend_courses(prompt) / assist_run(payload):
\* recommend_courses may raise, assist_run returns its errors as values
Dispatch(j, raises) ==
    /\ h[j].pc = "dispatch"
    /\ raises => h[j].queue = Q_COACH
    /\ h' = [h EXCEPT ![j].pc = IF raises THEN "pub_fail" ELSE "pub_succ",
                      ![j].raised = raises]
    /\ UNCHANGED <<taskq, submitted, acked, dlq, results, chatResp, simStore, subs, envVars, chatVars, runVars, apiVars, msgLog>>

\* publish_result(channel, "task.succeeded", {...}) inside the try
PublishSucceeded(j, ok) ==
    /\ h[j].pc = "pub_succ"
    /\ PublishMay(ok)
    /\ PublishResult(ok, ResultPayload("task.succeeded", j, "succeeded", "none"))
    /\ SetPc(j, IF ok THEN "ack" ELSE "pub_fail")
    /\ CountFail(ok)
    /\ UNCHANGED <<taskq, submitted, acked, dlq, chatResp, simStore, crashes, chatVars, runVars, apiVars, msgLog>>

\* except Exception as e: publish_result(channel, "task.failed", {...})
PublishFailed(j, ok) ==
    /\ h[j].pc = "pub_fail"
    /\ PublishMay(ok)
    /\ PublishResult(ok, ResultPayload("task.failed", j, "failed", "error"))
    /\ SetPc(j, IF ok THEN "ack" ELSE "reject")
    /\ CountFail(ok)
    /\ UNCHANGED <<taskq, submitted, acked, dlq, chatResp, simStore, crashes, chatVars, runVars, apiVars, msgLog>>

\* the error text of a body json.loads refuses: f"invalid_json: {e}"
InvalidJsonError == "invalid_json: e"

\* json.loads failed: publish_result(channel, "task.failed",
\* {"error": f"invalid_json: {e}", "raw": body_text}) - no job_id, no status
PublishInvalid(j, ok) ==
    /\ h[j].pc = "pub_invalid"
    /\ PublishMay(ok)
    /\ PublishResult(ok, ResultPayload("task.failed", NoJob, "none", InvalidJsonError))
    /\ SetPc(j, IF ok THEN "ack" ELSE "reject")
    /\ CountFail(ok)
    /\ UNCHANGED <<taskq, submitted, acked, dlq, chatResp, simStore, crashes, chatVars, runVars, apiVars, msgLog>>

\* log_message: one more row in message_logs, whatever is there already; `of`
\* names the message whose processing wrote the row
LogRow(of, session, role, content) ==
    [of |-> of, session |-> session, role |-> role, content |-> content]
LogMessage(log, row) == log (+) SetToBag({row})

\* the two _append_history calls of stream_response: the seller's message, then
\* the reply
LogTurn(log, of, session, seller_msg, out) ==
    LogMessage(LogMessage(log, LogRow(of, session, "SELLER", seller_msg)),
               LogRow(of, session, "AI", TurnReply(out)))

\* ---------------------------------------------------- HybridMemoryManager
\* MAX_RECENT_MESSAGES of config.py; the slice [-5:] of get_context
MAX_RECENT_MESSAGES == 10
CONTEXT_MESSAGES == 5

LastN(seq, n) == IF Len(seq) <= n THEN seq ELSE SubSeq(seq, Len(seq) - n + 1, Len(seq))

\* add_message: the message joins recent_memory, whose oldest message leaves
\* for the summary when more than MAX_RECENT_MESSAGES are held
AddMessage(recent_memory, entry) ==
    LET r == Append(recent_memory, entry)
    IN  IF Len(r) > MAX_RECENT_MESSAGES THEN Tail(r) ELSE r

\* the first section of get_context: recent_memory[-5:]
GetContext(recent_memory) == LastN(recent_memory, CONTEXT_MESSAGES)

\* SalesPersonaAI.from_dict -> __init__: history is taken from the stored
\* state, memory_manager is a new HybridMemoryManager (recent_memory = [])
FromDict(history) == [history |-> history, recent_memory |-> <<>>]

\* stream_response up to _build_prompt: _append_history of the seller's
\* message (history and memory), then get_context(seller_msg)
TurnContext(engine, seller_msg) ==
    GetContext(AddMessage(engine.recent_memory, HistoryEntry("SELLER", seller_msg)))

\* ------------------------------------------------------- SimulationWorker
\* _handle_start_session: greeting, _append_history, redis set
SimStart(j, out) ==
    /\ h[j].pc = "sim_start"
    /\ IF out = NoReply
       THEN /\ h' = [h EXCEPT ![j].pc = "ack", ![j].raised = TRUE]
            /\ UNCHANGED <<simStore, msgLog>>
       ELSE /\ simStore' = [simStore EXCEPT ![h[j].msg.session] =
                                Stored(AppendHistory(<<>>, "AI", FirstGreeting(out)))]
            /\ h' = [h EXCEPT ![j].pc = "sim_greet",
                              ![j].ai = AppendHistory(<<>>, "AI", FirstGreeting(out)),
                              ![j].chunk = FirstGreeting(out)]
            /\ msgLog' = LogMessage(msgLog,
                   LogRow(<<"job", j>>, h[j].msg.session, "AI", FirstGreeting(out)))
    /\ UNCHANGED <<taskq, submitted, acked, dlq, results, chatResp, subs, envVars, chatVars, runVars, apiVars>>

\* publish_chat_response(..., greeting, event="greeting")
SimGreet(j, ok) ==
    /\ h[j].pc = "sim_greet"
    /\ PublishMay(ok)
    /\ PublishChatResponse(ok, h[j].msg.session, h[j].chunk, "greeting")
    /\ SetPc(j, "ack")
    /\ CountFail(ok)
    /\ UNCHANGED <<taskq, submitted, acked, dlq, results, simStore, crashes, chatVars, runVars, apiVars, msgLog>>

\* state_data = await self.redis_client.get(RKEY_SESSION(session_id))
SimGet(j) ==
    /\ h[j].pc = "sim_get"
    /\ IF simStore[h[j].msg.session] = NoState
       THEN SetPc(j, "sim_nf")
       ELSE h' = [h EXCEPT ![j].pc = "sim_stream",
                           ![j].ai = simStore[h[j].msg.session].history]
    /\ UNCHANGED <<taskq, submitted, acked, dlq, results, chatResp, simStore, subs, envVars, chatVars, runVars, apiVars, msgLog>>

\* publish_chat_response(..., "Error: Session not found or expired.", event="error")
SimNotFound(j, ok) ==
    /\ h[j].pc = "sim_nf"
    /\ PublishMay(ok)
    /\ PublishChatResponse(ok, h[j].msg.session, <<"ERR_NOT_FOUND">>, "error")
    /\ SetPc(j, "ack")
    /\ CountFail(ok)
    /\ UNCHANGED <<taskq, submitted, acked, dlq, results, simStore, crashes, chatVars, runVars, apiVars, msgLog>>

\* for chunk in ai.stream_response(seller_msg): publish_chat_response(chunk, "message")
SimStream(j, out, ok) ==
    /\ h[j].pc = "sim_stream"
    /\ PublishMay(ok)
    /\ LET r == StreamResponse(h[j].ai, h[j].msg.seller, out)
       IN /\ PublishChatResponse(ok, h[j].msg.session, Concat(r.chunks), "message")
          /\ h' = [h EXCEPT ![j].pc = IF ok THEN "sim_set" ELSE "sim_err",
                            ![j].ai = r.history,
                            ![j].chunk = Concat(r.chunks)]
          /\ msgLog' = LogTurn(msgLog, <<"job", j>>, h[j].msg.session, h[j].msg.seller, out)
          /\ ctx' = [ctx EXCEPT ![j] = TurnContext(FromDict(h[j].ai), h[j].msg.seller)]
    /\ CountFail(ok)
    /\ UNCHANGED <<taskq, submitted, acked, dlq, results, simStore, crashes, chatVars, runVars,
                   threads, req, vstore, vpoints, up, uniq, rag, assist, idx, tts>>

\* await self.redis_client.set(RKEY_SESSION(session_id), json.dumps(ai.to_dict()))
SimSet(j) ==
    /\ h[j].pc = "sim_set"
    /\ simStore' = [simStore EXCEPT ![h[j].msg.session] = Stored(h[j].ai)]
    /\ SetPc(j, "sim_end")
    /\ UNCHANGED <<taskq, submitted, acked, dlq, results, chatResp, subs, envVars, chatVars, runVars, apiVars, msgLog>>

\* publish_chat_response(..., "", event="message_end")
SimEnd(j, ok) ==
    /\ h[j].pc = "sim_end"
    /\ PublishMay(ok)
    /\ PublishChatResponse(ok, h[j].msg.session, <<>>, "message_end")
    /\ SetPc(j, IF ok THEN "ack" ELSE "sim_err")
    /\ CountFail(ok)
    /\ UNCHANGED <<taskq, submitted, acked, dlq, results, simStore, crashes, chatVars, runVars, apiVars, msgLog>>

\* except Exception: publish_chat_response(..., "Error: ...", event="error");
\* an exception of this publish is swallowed by _on_message
SimErr(j, ok) ==
    /\ h[j].pc = "sim_err"
    /\ PublishMay(ok)
    /\ PublishChatResponse(ok, h[j].msg.session, <<"ERR_GENERATING">>, "error")
    /\ SetPc(j, "ack")
    /\ CountFail(ok)
    /\ UNCHANGED <<taskq, submitted, acked, dlq, results, simStore, crashes, chatVars, runVars, apiVars, msgLog>>

\* ------------------------------------------------------------- SSE bridges
\* GET /events/jobs/{job_id}: exclusive queue bound to ai.results with "#"
SubscribeJob(u, j) ==
    /\ subs[u].st = "idle"
    /\ subs' = [subs EXCEPT ![u] = [IdleSub EXCEPT !.st = "open", !.kind = "job",
                                                   !.job = j, !.bind = Len(results)]]
    /\ UNCHANGED <<taskVars, chatResp, envVars, chatVars, runVars, apiVars, msgLog>>

\* GET /sales/stream/{session_id}: exclusive queue bound to chat.responses
SubscribeSession(u, s) ==
    /\ subs[u].st = "idle"
    /\ subs' = [subs EXCEPT ![u] = [IdleSub EXCEPT !.st = "open", !.kind = "session",
                                                   !.session = s, !.bind = Len(chatResp)]]
    /\ UNCHANGED <<taskVars, chatResp, envVars, chatVars, runVars, apiVars, msgLog>>

\* a bridge that forwards whatever its queue receives
MatchesAll(sub, payload) == TRUE

\* a bridge that forwards only succeeded results and `message` events
MatchesFinalOnly(sub, payload) ==
    IF sub.kind = "job"
    THEN payload.job = sub.job /\ payload.rk = "task.succeeded"
    ELSE payload.session = sub.session /\ payload.event = "message"

\* if payload.get("job_id") == job_id / payload.get("session_id") == session_id
Matches(sub, payload) ==
    IF sub.kind = "job" THEN payload.job = sub.job ELSE payload.session = sub.session

\* what is written to the client for one payload
SseLine(sub, payload) ==
    IF sub.kind = "job" THEN payload
    ELSE [event |-> payload.event, data |-> payload.data]

\* a bridge that takes the newest message of its queue first
ForwardNewest(u) ==
    /\ subs[u].st = "open"
    /\ subs[u].q # <<>>
    /\ LET payload == subs[u].q[Len(subs[u].q)]
       IN subs' = [subs EXCEPT ![u].q = SubSeq(@, 1, Len(@) - 1),
                               ![u].sent = IF Matches(subs[u], payload)
                                           THEN Append(@, SseLine(subs[u], payload))
                                           ELSE @]
    /\ UNCHANGED <<taskVars, chatResp, envVars, chatVars, runVars, apiVars, msgLog>>

\* one iteration of `async for msg in it`: json.loads(msg.body) first. In
\* sse_job a body that is not JSON is skipped (except Exception: continue);
\* in stream_chat_responses the exception leaves the generator, which catches
\* asyncio.CancelledError only: the stream ends and the connection closes
Forward(u) ==
    /\ subs[u].st = "open"
    /\ subs[u].q # <<>>
    /\ LET payload == Head(subs[u].q)
       IN IF ~payload.json
          THEN subs' = [subs EXCEPT ![u] =
                          IF subs[u].kind = "job" THEN [@ EXCEPT !.q = Tail(@)]
                          ELSE [IdleSub EXCEPT !.st = "failed"]]
          ELSE subs' = [subs EXCEPT ![u].q = Tail(@),
                               ![u].sent = IF Matches(subs[u], payload)
                                           THEN Append(@, SseLine(subs[u], payload))
                                           ELSE @]
    /\ UNCHANGED <<taskVars, chatResp, envVars, chatVars, runVars, apiVars, msgLog>>

\* the client goes away: the generator is cancelled, the queue is deleted
Disconnect(u) ==
    /\ subs[u].st = "open"
    /\ subs' = [subs EXCEPT ![u] = [IdleSub EXCEPT !.st = "gone"]]
    /\ UNCHANGED <<taskVars, chatResp, envVars, chatVars, runVars, apiVars, msgLog>>

\* no /tts/live stream opened yet; base is the number of `done` messages
\* published on the channel before the stream subscribed to it
NoStream == [pc |-> "idle", session |-> "none", base |-> 0, sent |-> <<>>]

\* a Qdrant collection without points
NoPoints == [id \in {} |-> ""]
\* no answer of the index route yet
NoIndexing == [vectorstore_id |-> "none", indexed |-> 0]

\* no call of assist_run made yet
NoCall == [called |-> FALSE, vectorstore_id |-> "none", prompt |-> "none",
           http |-> "none", raised |-> FALSE,
           result |-> [answer |-> "none", evidence |-> <<>>, sub_function |-> "none"]]

\* ------------------------------------------------------------ task fabric
\* everything but the session stores, the vectorstore collection and the
\* message log
InitCore ==
    /\ taskq = [q \in Queues |-> <<>>]
    /\ submitted = [j \in JobIds |-> NoMsg]
    /\ h = [j \in JobIds |-> IdleHandler]
    /\ acked = {}
    /\ dlq = <<>>
    /\ results = <<>>
    /\ chatResp = <<>>
    /\ subs = [u \in SubIds |-> IdleSub]
    /\ crashes = 0
    /\ pubFails = 0
    /\ chatq = <<>>
    /\ posted = [t \in TurnIds |-> NoChatMsg]
    /\ ch = [t \in TurnIds |-> IdleTurn]
    /\ ic = [n \in InitIds |-> IdleInit]
    /\ closedFlag = [s \in Sessions |-> "unset"]
    /\ ttsQueue = [s \in Sessions |-> <<>>]
    /\ ttsDone = [s \in Sessions |-> 0]
    /\ prefetch = WORKER_PREFETCH
    /\ phase = [w \in Workers |-> "running"]
    /\ ac = NoAutoclose
    /\ threads = {}
    /\ req = [r \in ReqIds |-> IdleReq]
    /\ up = [u \in UpIds |-> IdleUp]
    /\ rag = NoRag
    /\ assist = [j \in JobIds |-> NoCall]
    /\ idx = NoIndexing
    /\ ctx = [j \in JobIds |-> <<>>]
    /\ tts = NoStream

\* no simulation session started, nothing logged
InitRest ==
    /\ InitCore
    /\ simStore = [s \in Sessions |-> NoState]
    /\ msgLog = EmptyBag

\* an empty vectorstore collection, its unique index not yet created
InitOther ==
    /\ InitRest
    /\ vstore = [v \in VsIds |-> NoDoc]
    /\ vpoints = [v \in VsIds |-> NoPoints]
    /\ uniq = FALSE

Init ==
    /\ InitOther
    /\ store = [s \in Sessions |-> NoState]

DeliverAny == \E q \in Queues : Deliver(q)
AckAny == \E j \in JobIds : Ack(j)
RejectAny == \E j \in JobIds : Reject(j)
CrashAny == \E w \in Workers : Crash(w)
DispatchAny == \E j \in JobIds, raises \in BOOLEAN : Dispatch(j, raises)
PublishSucceededAny == \E j \in JobIds, ok \in BOOLEAN : PublishSucceeded(j, ok)
PublishFailedAny == \E j \in JobIds, ok \in BOOLEAN : PublishFailed(j, ok)
PublishInvalidAny == \E j \in JobIds, ok \in BOOLEAN : PublishInvalid(j, ok)
SimStartAny == \E j \in JobIds, out \in GreetingReplies \cup {NoReply} : SimStart(j, out)
SimGreetAny == \E j \in JobIds, ok \in BOOLEAN : SimGreet(j, ok)
SimGetAny == \E j \in JobIds : SimGet(j)
SimNotFoundAny == \E j \in JobIds, ok \in BOOLEAN : SimNotFound(j, ok)
SimStreamAny == \E j \in JobIds, out \in LLMOutcomes, ok \in BOOLEAN : SimStream(j, out, ok)
SimSetAny == \E j \in JobIds : SimSet(j)
SimEndAny == \E j \in JobIds, ok \in BOOLEAN : SimEnd(j, ok)
SimErrAny == \E j \in JobIds, ok \in BOOLEAN : SimErr(j, ok)
SubscribeJobAny == \E u \in SubIds, j \in JobIds : SubscribeJob(u, j)
SubscribeSessionAny == \E u \in SubIds, s \in Sessions : SubscribeSession(u, s)
ForwardAny == \E u \in SubIds : Forward(u)
DisconnectAny == \E u \in SubIds : Disconnect(u)

\* the task fabric with its faults (worker crashes, refused publishes)
Next ==
    \/ Submit
    \/ DeliverAny
    \/ DispatchAny
    \/ PublishSucceededAny
    \/ PublishFailedAny
    \/ PublishInvalidAny
    \/ SimStartAny
    \/ SimGreetAny
    \/ SimGetAny
    \/ SimNotFoundAny
    \/ SimStreamAny
    \/ SimSetAny
    \/ SimEndAny
    \/ SimErrAny
    \/ AckAny
    \/ RejectAny
    \/ CrashAny

Spec == Init /\ [][Next]_vars

\* --------------------------------------- the generic worker with its faults
SubmitGeneric ==
    \E j \in JobIds, rk \in {RK_COACH, RK_ASSIST}, wf \in BOOLEAN :
        SubmitTask(j, rk, wf, NoSession, <<>>)

NextDlx ==
    \/ SubmitGeneric
    \/ \E q \in GenericQueues : Deliver(q)
    \/ DispatchAny
    \/ PublishSucceededAny
    \/ PublishFailedAny
    \/ PublishInvalidAny
    \/ AckAny
    \/ RejectAny

SpecDlx == Init /\ [][NextDlx]_vars

\* ------------------------------------------- the life of a worker process
\* WORKER_PREFETCH = int(os.getenv("WORKER_PREFETCH", "8")), read when the
\* process starts, before it consumes anything
Prefetches == 1..(MaxJobs - 1)

Configure(p) ==
    /\ prefetch = WORKER_PREFETCH
    /\ \A j \in JobIds : submitted[j] = NoMsg
    /\ \A w \in Workers : phase[w] = "running"
    /\ prefetch' = p
    /\ UNCHANGED <<fabricVars, chatVars, apiVars, msgLog, phase, ac>>

\* SIGINT / SIGTERM: the signal handler sets stop_event
Signal(w) ==
    /\ phase[w] = "running"
    /\ phase' = [phase EXCEPT ![w] = "signalled"]
    /\ UNCHANGED <<fabricVars, chatVars, apiVars, msgLog, prefetch, ac>>

\* run() wakes from stop_event.wait(): await ch.close(); await conn.close(),
\* then the event loop ends. The handlers still running are cancelled with
\* the loop and the broker requeues their unacked messages
Close(w) ==
    /\ phase[w] = "signalled"
    /\ phase' = [phase EXCEPT ![w] = "closed"]
    /\ Requeue(w)
    /\ UNCHANGED <<submitted, acked, dlq, results, chatResp, simStore, subs,
                   envVars, chatVars, apiVars, msgLog, prefetch, ac>>

NextRun ==
    \/ \E p \in Prefetches : Configure(p)
    \/ SubmitGeneric
    \/ \E q \in GenericQueues : Deliver(q)
    \/ DispatchAny
    \/ \E j \in JobIds : PublishSucceeded(j, TRUE)
    \/ \E j \in JobIds : PublishFailed(j, TRUE)
    \/ \E j \in JobIds : PublishInvalid(j, TRUE)
    \/ AckAny
    \/ Signal("generic")
    \/ Close("generic")

SpecRun == Init /\ [][NextRun]_vars

\* ------------------------------------------------- routing of ai.tasks
\* the keys <function>.<sub_function> a dispatcher may publish with
Functions == {"assist", "galaxy", "coach", "translate", "sim"}
SubFunctions == {"start", "chat", "control"}
RouteKeys == {<<f, sub>> : f \in Functions, sub \in SubFunctions}

PublishAnyKey ==
    \E j \in JobIds, rk \in RouteKeys :
        IF Head(rk) = "sim"
        THEN \E s \in Sessions : PublishTask(j, rk, TRUE, s, <<WORD>>)
        ELSE PublishTask(j, rk, TRUE, NoSession, <<>>)

NextRoute ==
    \/ PublishAnyKey
    \/ DeliverAny

SpecRoute == Init /\ [][NextRoute]_vars

\* ----------------------------------------------- task fabric with SSE bridges
\* well-formed tasks, no faults: what is published is what the bridges see
SubmitLive ==
    \E j \in JobIds :
        \/ SubmitTask(j, RK_COACH, TRUE, NoSession, <<>>)
        \/ \E s \in Sessions : SubmitTask(j, RK_SIM_START, TRUE, s, <<WORD>>)
        \/ \E s \in Sessions : SubmitTask(j, RK_SIM_CHAT, TRUE, s, <<WORD>>)

WorkerStepLive ==
    \/ \E j \in JobIds, raises \in BOOLEAN : Dispatch(j, raises)
    \/ \E j \in JobIds : PublishSucceeded(j, TRUE)
    \/ \E j \in JobIds : PublishFailed(j, TRUE)
    \/ \E j \in JobIds : SimStart(j, <<WORD>>)
    \/ \E j \in JobIds : SimGreet(j, TRUE)
    \/ \E j \in JobIds : SimGet(j)
    \/ \E j \in JobIds : SimNotFound(j, TRUE)
    \/ \E j \in JobIds : SimStream(j, <<WORD>>, TRUE)
    \/ \E j \in JobIds : SimSet(j)
    \/ \E j \in JobIds : SimEnd(j, TRUE)
    \/ AckAny

NextSse ==
    \/ SubmitLive
    \/ DeliverAny
    \/ WorkerStepLive
    \/ SubscribeJobAny
    \/ SubscribeSessionAny
    \/ ForwardAny
    \/ DisconnectAny

SpecSse == Init /\ [][NextSse]_vars

\* the event loop of the API process runs every open SSE generator
FairSse ==
    /\ SpecSse
    /\ WF_vars(DeliverAny)
    /\ WF_vars(WorkerStepLive)
    /\ \A u \in SubIds : WF_vars(Forward(u))


\* --------------------------------------- the SSE bridges and foreign bodies
NotJsonCount ==
    Cardinality({i \in DOMAIN results : ~results[i].json})
        + Cardinality({i \in DOMAIN chatResp : ~chatResp[i].json})

\* another publisher sends a body that is not JSON to ai.results
PublishNotJsonResult ==
    /\ NotJsonCount < MaxNotJson
    /\ results' = Append(results, NotJsonResult)
    /\ subs' = FanResults(NotJsonResult)
    /\ UNCHANGED <<taskq, submitted, h, acked, dlq, chatResp, simStore, envVars,
                   chatVars, runVars, apiVars, msgLog>>

\* another publisher sends a body that is not JSON to chat.responses
PublishNotJsonChat ==
    /\ NotJsonCount < MaxNotJson
    /\ chatResp' = Append(chatResp, NotJsonChat)
    /\ subs' = FanChat(NotJsonChat)
    /\ UNCHANGED <<taskq, submitted, h, acked, dlq, results, simStore, envVars,
                   chatVars, runVars, apiVars, msgLog>>

NextBridge ==
    \/ NextSse
    \/ PublishNotJsonResult
    \/ PublishNotJsonChat

SpecBridge == Init /\ [][NextBridge]_vars

\* ============================================================ backend chat

\* publish_chat_response(channel, session_id, data, event) of the backend; the
\* payload is tagged with the chat message whose handler published it
ChatPublish(t, session, data, event) ==
    /\ chatResp' = Append(chatResp, [session |-> session, event |-> event,
                                     data |-> data, json |-> TRUE, turn |-> t])
    /\ subs' = FanChat([session |-> session, event |-> event, data |-> data,
                        json |-> TRUE, turn |-> t])

\* POST /sales/chat: publish_chat_message(payload), routing key "request"
PostChat(t, s, seller) ==
    /\ posted[t] = NoChatMsg
    /\ \A i \in TurnIds : i < t => posted[i] # NoChatMsg
    /\ posted' = [posted EXCEPT ![t] = [id |-> t, session |-> s, seller |-> seller]]
    /\ chatq' = Append(chatq, [id |-> t, session |-> s, seller |-> seller])
    /\ UNCHANGED <<fabricVars, runVars, apiVars, msgLog, ch, ic, store, closedFlag, ttsQueue, ttsDone>>

ActiveTurns == {t \in TurnIds : ch[t].pc \notin {"none", "finished"}}

\* consume_chat_messages: `async for message in queue_iter` with
\* prefetch_count=10, asyncio.create_task(handle_chat_message(message));
\* the handler runs up to its first await
ChatDeliver ==
    /\ chatq # <<>>
    /\ Cardinality(ActiveTurns) < CHAT_PREFETCH
    /\ LET msg == Head(chatq)
       IN ch' = [ch EXCEPT ![msg.id] =
                    [pc |-> IF msg.seller = <<>> THEN "ack" ELSE "get",
                     msg |-> msg, engine |-> <<>>, full_raw |-> <<>>]]
    /\ chatq' = Tail(chatq)
    /\ UNCHANGED <<fabricVars, runVars, apiVars, msgLog, posted, ic, store, closedFlag, ttsQueue, ttsDone>>

\* get_session(session_id): from_dict of the stored state, or None
GetSession(s) == IF store[s].present THEN store[s].history ELSE <<>>

\* engine = await get_session(session_id); if not engine: engine = SalesPersonaAI(...)
HCM_Get(t) ==
    /\ ch[t].pc = "get"
    /\ ch' = [ch EXCEPT ![t].pc = "stream", ![t].engine = GetSession(ch[t].msg.session)]
    /\ UNCHANGED <<fabricVars, runVars, apiVars, msgLog, chatq, posted, ic, store, closedFlag, ttsQueue, ttsDone>>

\* for chunk in engine.stream_response(seller_msg): full_raw += chunk;
\* publish_chat_response(channel, session_id, chunk, event="message")
HCM_Stream(t, out) ==
    /\ ch[t].pc = "stream"
    /\ LET r == StreamResponse(ch[t].engine, ch[t].msg.seller, out)
       IN /\ ch' = [ch EXCEPT ![t].pc = "lpush",
                              ![t].engine = r.history,
                              ![t].full_raw = @ \o Concat(r.chunks)]
          /\ ChatPublish(t, ch[t].msg.session, Concat(r.chunks), "message")
          /\ msgLog' = LogTurn(msgLog, <<"turn", t>>, ch[t].msg.session, ch[t].msg.seller, out)
    /\ UNCHANGED <<taskVars, envVars, runVars, apiVars, chatq, posted, ic, store, closedFlag, ttsQueue,
                   ttsDone>>

\* await get_redis_client().lpush(f"tts_queue:{session_id}", chunk)
HCM_Lpush(t) ==
    /\ ch[t].pc = "lpush"
    /\ ttsQueue' = [ttsQueue EXCEPT ![ch[t].msg.session] = <<ch[t].full_raw>> \o @]
    /\ ch' = [ch EXCEPT ![t].pc = "set"]
    /\ UNCHANGED <<fabricVars, runVars, apiVars, msgLog, chatq, posted, ic, store, closedFlag, ttsDone>>

\* set_session(session_id, session): redis SET of session.to_dict()
SetSession(s, history) == store' = [store EXCEPT ![s] = Stored(history)]

\* await set_session(session_id, engine); if "<대화 종료>" in full_raw: ...
HCM_Set(t) ==
    /\ ch[t].pc = "set"
    /\ SetSession(ch[t].msg.session, ch[t].engine)
    /\ ch' = [ch EXCEPT ![t].pc = IF Contains(ch[t].full_raw, END_TOKEN)
                                  THEN "close" ELSE "tts_done"]
    /\ UNCHANGED <<fabricVars, runVars, apiVars, msgLog, chatq, posted, ic, closedFlag, ttsQueue, ttsDone>>

\* await get_redis_client().set(RKEY_SESSION_CLOSED(session_id), "true")
HCM_Close(t) ==
    /\ ch[t].pc = "close"
    /\ closedFlag' = [closedFlag EXCEPT ![ch[t].msg.session] = "true"]
    /\ ch' = [ch EXCEPT ![t].pc = "end"]
    /\ UNCHANGED <<fabricVars, runVars, apiVars, msgLog, chatq, posted, ic, store, ttsQueue, ttsDone>>

\* publish_chat_response(channel, session_id, "Conversation ended by AI.", event="end")
HCM_End(t) ==
    /\ ch[t].pc = "end"
    /\ ChatPublish(t, ch[t].msg.session, <<"ENDED">>, "end")
    /\ ch' = [ch EXCEPT ![t].pc = "tts_done"]
    /\ UNCHANGED <<taskVars, envVars, runVars, apiVars, msgLog, chatq, posted, ic, store, closedFlag, ttsQueue,
                   ttsDone>>

\* await get_redis_client().publish(f"tts_done_flag:{session_id}", "done")
HCM_TtsDone(t) ==
    /\ ch[t].pc = "tts_done"
    /\ ttsDone' = [ttsDone EXCEPT ![ch[t].msg.session] = @ + 1]
    /\ ch' = [ch EXCEPT ![t].pc = "ack"]
    /\ UNCHANGED <<fabricVars, runVars, apiVars, msgLog, chatq, posted, ic, store, closedFlag, ttsQueue>>

\* `async with message.process()` exits: basic.ack
HCM_Ack(t) ==
    /\ ch[t].pc = "ack"
    /\ ch' = [ch EXCEPT ![t].pc = "finished"]
    /\ UNCHANGED <<fabricVars, runVars, apiVars, msgLog, chatq, posted, ic, store, closedFlag, ttsQueue, ttsDone>>

\* POST /chat/initiate: ai = await get_session(session_id); if not ai: new
IC_Get(n, s) ==
    /\ ic[n].pc = "none"
    /\ \A i \in InitIds : i < n => ic[i].pc # "none"
    /\ ic' = [ic EXCEPT ![n] = [pc |-> "closed", session |-> s, ai |-> GetSession(s)]]
    /\ UNCHANGED <<fabricVars, runVars, apiVars, msgLog, chatq, posted, ch, store, closedFlag, ttsQueue, ttsDone>>

\* await get_redis_client().set(RKEY_SESSION_CLOSED(session_id), "false")
IC_SetClosed(n) ==
    /\ ic[n].pc = "closed"
    /\ closedFlag' = [closedFlag EXCEPT ![ic[n].session] = "false"]
    /\ ic' = [ic EXCEPT ![n].pc = "greet"]
    /\ UNCHANGED <<fabricVars, runVars, apiVars, msgLog, chatq, posted, ch, store, ttsQueue, ttsDone>>

\* greeting = ai.generate_first_greeting(); ai._append_history("AI", greeting);
\* await set_session(session_id, ai); a failing model call ends the request
IC_SetSession(n, out) ==
    /\ ic[n].pc = "greet"
    /\ IF out = NoReply
       THEN /\ ic' = [ic EXCEPT ![n].pc = "failed"]
            /\ UNCHANGED <<store, msgLog>>
       ELSE /\ SetSession(ic[n].session, AppendHistory(ic[n].ai, "AI", FirstGreeting(out)))
            /\ ic' = [ic EXCEPT ![n].pc = "done",
                                ![n].ai = AppendHistory(ic[n].ai, "AI", FirstGreeting(out))]
            /\ msgLog' = LogMessage(msgLog,
                   LogRow(<<"init", n>>, ic[n].session, "AI", FirstGreeting(out)))
    /\ UNCHANGED <<fabricVars, runVars, apiVars, chatq, posted, ch, closedFlag, ttsQueue, ttsDone>>

\* the session SSE bridge of the API
ChatSubscribe(u, s) ==
    /\ SubscribeSession(u, s)
    /\ UNCHANGED chatVars

ChatForward(u) ==
    /\ Forward(u)
    /\ UNCHANGED chatVars

ChatDisconnect(u) ==
    /\ Disconnect(u)
    /\ UNCHANGED chatVars

PostChatAny == \E t \in TurnIds, s \in Sessions, seller \in SellerMsgs \cup {<<>>} :
                    PostChat(t, s, seller)
HCM_GetAny == \E t \in TurnIds : HCM_Get(t)
HCM_StreamAny == \E t \in TurnIds, out \in LLMOutcomes : HCM_Stream(t, out)
HCM_LpushAny == \E t \in TurnIds : HCM_Lpush(t)
HCM_SetAny == \E t \in TurnIds : HCM_Set(t)
HCM_CloseAny == \E t \in TurnIds : HCM_Close(t)
HCM_EndAny == \E t \in TurnIds : HCM_End(t)
HCM_TtsDoneAny == \E t \in TurnIds : HCM_TtsDone(t)
HCM_AckAny == \E t \in TurnIds : HCM_Ack(t)
IC_GetAny == \E n \in InitIds, s \in Sessions : IC_Get(n, s)
IC_SetClosedAny == \E n \in InitIds : IC_SetClosed(n)
IC_SetSessionAny == \E n \in InitIds, out \in GreetingReplies \cup {NoReply} :
                        IC_SetSession(n, out)
ChatSubscribeAny == \E u \in SubIds, s \in Sessions : ChatSubscribe(u, s)
ChatForwardAny == \E u \in SubIds : ChatForward(u)
ChatDisconnectAny == \E u \in SubIds : ChatDisconnect(u)

\* the chat backend: /sales/chat, the consumer and /chat/initiate
NextChat ==
    \/ PostChatAny
    \/ ChatDeliver
    \/ HCM_GetAny
    \/ HCM_StreamAny
    \/ HCM_LpushAny
    \/ HCM_SetAny
    \/ HCM_CloseAny
    \/ HCM_EndAny
    \/ HCM_TtsDoneAny
    \/ HCM_AckAny
    \/ IC_GetAny
    \/ IC_SetClosedAny
    \/ IC_SetSessionAny

SpecChat == Init /\ [][NextChat]_vars

\* ------------------------------------------ chat backend with the SSE bridge
\* non-empty seller messages, a model that answers: what the handlers publish
\* on chat.responses is what the session bridges forward
PostChatLive == \E t \in TurnIds, s \in Sessions : PostChat(t, s, <<WORD>>)
HCM_StreamLive ==
    \E t \in TurnIds, out \in { <<WORD>>, <<WORD, END_TOKEN>> } : HCM_Stream(t, out)

NextChatSse ==
    \/ PostChatLive
    \/ ChatDeliver
    \/ HCM_GetAny
    \/ HCM_StreamLive
    \/ HCM_LpushAny
    \/ HCM_SetAny
    \/ HCM_CloseAny
    \/ HCM_EndAny
    \/ HCM_TtsDoneAny
    \/ HCM_AckAny
    \/ ChatSubscribeAny
    \/ ChatForwardAny
    \/ ChatDisconnectAny

SpecChatSse == Init /\ [][NextChatSse]_vars

\* ------------------------------------------------- chat turns on their own
NextTurn ==
    \/ PostChatAny
    \/ ChatDeliver
    \/ HCM_GetAny
    \/ HCM_StreamAny
    \/ HCM_LpushAny
    \/ HCM_SetAny
    \/ HCM_CloseAny
    \/ HCM_EndAny
    \/ HCM_TtsDoneAny
    \/ HCM_AckAny

SpecTurn == Init /\ [][NextTurn]_vars

\* -------------------------------------------------- the close check
\* the histories a session holds after k turns handled one after the other,
\* begun by /chat/initiate (a greeting) or by the first chat message
CloseReplies == { <<WORD>>, <<WORD, END_TOKEN>> }

RECURSIVE HistoriesAfter(_)
HistoriesAfter(k) ==
    IF k = 0 THEN { <<>>, AppendHistory(<<>>, "AI", FirstGreeting(<<WORD>>)) }
    ELSE { StreamResponse(hist, <<WORD>>, out).history :
              hist \in HistoriesAfter(k - 1), out \in CloseReplies }

StoredHistories == UNION { HistoriesAfter(k) : k \in 0..MaxCloseTurns }

\* session s1 holds one of these histories, session s2 was never created
InitClose ==
    /\ InitOther
    /\ \E hist \in StoredHistories :
          store = [s \in Sessions |-> IF s = "s1" /\ hist # <<>> THEN Stored(hist)
                                      ELSE NoState]

\* POST /autoclose: get_session, 404 when there is none, else
\* {"should_close": engine.maybe_autoclose()[0]}
Autoclose(s) ==
    /\ ac' = [called |-> TRUE, session |-> s,
              found |-> store[s].present,
              should_close |-> store[s].present /\ MaybeAutoclose(GetSession(s))]
    /\ UNCHANGED <<fabricVars, chatVars, apiVars, msgLog, prefetch, phase>>

NextClose == \E s \in Sessions : Autoclose(s)

SpecClose == InitClose /\ [][NextClose]_vars

\* ================================================================= claims
TerminalFor(j) ==
    {i \in DOMAIN results :
        /\ results[i].job = j
        /\ results[i].rk \in {"task.succeeded", "task.failed"}}

Removed(j) == j \in acked \/ \E i \in DOMAIN dlq : dlq[i].job = j

\* C1: no accepted task is lost - a task that has left its queue (acked, or
\* rejected without requeue) has a terminal result (task.succeeded or
\* task.failed) carrying its job_id on ai.results.
C1_NoTaskLost ==
    \A j \in JobIds :
        (submitted[j] # NoMsg /\ submitted[j].wf /\ Removed(j)) => TerminalFor(j) # {}

\* C2: at-least-once - every well-formed task accepted into a queue is
\* eventually followed by a terminal result carrying its job_id on ai.results.
C2_AtLeastOnce ==
    \A j \in JobIds :
        (submitted[j] # NoMsg /\ submitted[j].wf) ~> (TerminalFor(j) # {})

\* C7: for one job_id at most one terminal result is ever published on
\* ai.results, over all deliveries of the task.
C7_OneTerminalResult ==
    \A j \in JobIds : Cardinality(TerminalFor(j)) <= 1

FailedFor(j) ==
    {i \in DOMAIN results : results[i].job = j /\ results[i].rk = "task.failed"
                            /\ results[i].error = "error"}

\* C10: when the handler of a well-formed task has raised, the message is
\* settled by an ack (never a reject), and at the ack exactly one task.failed
\* result carrying the job_id and the error has been published.
C10_HandlerFailure ==
    \A j \in JobIds :
        (h[j].raised /\ h[j].pc \in {"ack", "reject"}) =>
            (h[j].pc = "ack" /\ Cardinality(FailedFor(j)) = 1)

\* results on ai.results that report a body that is not JSON
InvalidJsonResults ==
    {i \in DOMAIN results :
        results[i].rk = "task.failed" /\ results[i].error = "invalid_json"}

\* malformed messages whose handler has reached its ack, or that were acked
MalformedAcked ==
    {j \in JobIds : /\ submitted[j] # NoMsg /\ ~submitted[j].wf
                    /\ (j \in acked \/ h[j].pc = "ack")}

\* C11: malformed task - a consumed message whose body is not valid JSON is
\* acked (never rejected to the dead-letter exchange), and by its ack a
\* task.failed result with error "invalid_json" has been published for it.
C11_MalformedTask ==
    /\ Cardinality(InvalidJsonResults) >= Cardinality(MalformedAcked)
    /\ \A i \in DOMAIN dlq : dlq[i].wf

InDlq(j) == \E i \in DOMAIN dlq : dlq[i].job = j
Pending(j) == \E q \in Queues : \E i \in DOMAIN taskq[q] : taskq[q][i].job = j

\* C12: dead-lettering - when an exception leaves the handler of a message
\* (the handler is at its reject), settling the message puts it in q.dlq
\* through ai.dlq and not back in its work queue; a message in q.dlq stays
\* there and is never pending in a work queue or in a handler again.
C12_DeadLettering ==
    [][\A j \in JobIds :
        /\ (h[j].pc = "reject" /\ h'[j].pc # "reject" /\ crashes' = crashes)
              => (InDlq(j)' /\ ~Pending(j)' /\ ~Active(j)')
        /\ InDlq(j) => (InDlq(j)' /\ ~Pending(j)' /\ ~Active(j)')]_vars

\* a rejected message sits in q.dlq while the worker handles another one
C12_Witness ==
    \E j \in JobIds :
        /\ InDlq(j) /\ submitted[j].wf /\ ~Pending(j) /\ ~Active(j)
        /\ \E k \in JobIds \ {j} : k \in acked

\* the queue the specification names for each function
QueueOf(f) ==
    CASE f = "assist" -> "q.assist"
      [] f = "galaxy" -> "q.galaxy"
      [] f = "coach" -> "q.coach"
      [] f = "translate" -> "q.translate"
      [] f = "sim" -> "q.sim.control"

\* the queues that hold message j, waiting or delivered to their consumer
HeldBy(j) ==
    {q \in Queues : \E i \in DOMAIN taskq[q] : taskq[q][i].job = j}
        \cup (IF Active(j) THEN {h[j].queue} ELSE {})

Copies(j) ==
    Cardinality({<<q, i>> \in Queues \X (1..MaxJobs) :
                    i \in DOMAIN taskq[q] /\ taskq[q][i].job = j})
        + (IF Active(j) THEN 1 ELSE 0)

C14_BackPressure ==
    \A w \in Workers : Cardinality(HandlersIn(w)) <= prefetch

\* C15: graceful shutdown - once a worker has received its shutdown signal no
\* new delivery starts being handled by it, and its channel is closed only
\* when no handler of it is still in flight.
C15_GracefulShutdown ==
    [][\A w \in Workers :
        /\ phase[w] # "running" => HandlersIn(w)' \subseteq HandlersIn(w)
        /\ (phase[w] = "signalled" /\ phase'[w] = "closed") => HandlersIn(w) = {}]_vars

\* ---------------------------------------------------- session state (chat)
\* C16: closed sessions reject turns - once the closed flag of a session is
\* set, no POST /sales/chat enqueues a chat message for it and its stored
\* history gains no entry.
C16_ClosedRejectsTurns ==
    [][\A s \in Sessions :
        closedFlag[s] = "true" =>
            /\ \A t \in TurnIds :
                  (posted[t] = NoChatMsg /\ posted'[t] # NoChatMsg)
                      => posted'[t].session # s
            /\ Len(store'[s].history) <= Len(store[s].history)]_vars

\* the events published for chat message t, in publication order
EventsOf(t) ==
    LET evs == SelectSeq(chatResp, LAMBDA p : p.turn = t)
    IN [i \in 1..Len(evs) |-> evs[i].event]

\* the handler of chat message t has published all it publishes
TurnPublished(t) == ch[t].pc \in {"tts_done", "ack", "finished"} /\ ch[t].engine # <<>>

\* C17: event order of a chat turn - the events of a turn are one or more
\* `message` events, then exactly one `message_end`, then one `end` exactly
\* when the AI reply of the turn contains the end token.
C17_EventOrder ==
    \A t \in TurnIds :
        TurnPublished(t) =>
            \E k \in 1..Len(EventsOf(t)) :
                /\ \A i \in 1..k : EventsOf(t)[i] = "message"
                /\ Len(EventsOf(t)) > k /\ EventsOf(t)[k + 1] = "message_end"
                /\ IF Contains(ch[t].full_raw, END_TOKEN)
                   THEN Len(EventsOf(t)) = k + 2 /\ EventsOf(t)[k + 2] = "end"
                   ELSE Len(EventsOf(t)) = k + 1

\* the latest entry of the session's history is an AI reply with the end token
EndsWithToken(s) ==
    /\ store[s].present
    /\ LET last == store[s].history[Len(store[s].history)]
       IN Head(last) = P_AI /\ Contains(last, END_TOKEN)

AutoClosed(s) ==
    \/ closedFlag[s] = "true"
    \/ \E i \in DOMAIN chatResp : chatResp[i].session = s /\ chatResp[i].event = "end"
    \/ (ac.called /\ ac.session = s /\ ac.should_close)

\* C19: minimum dialogue length - a session whose stored history has fewer
\* than MIN_DIALOGUE_LENGTH entries is not auto-closed, even when its latest
\* AI reply contains the end token.
C19_MinDialogueLength ==
    \A s \in Sessions :
        AutoClosed(s) => Len(store[s].history) >= MIN_DIALOGUE_LENGTH

\* C3: no lost update on session state - while only turn handlers run (no
\* /chat/initiate request), every write of a session's stored state extends
\* the history stored before it; the stored history is never truncated or
\* replaced by a history that does not extend it.
C3_NoLostUpdate ==
    [][(\A n \in InitIds : ic[n].pc = "none") =>
          \A s \in Sessions :
              store[s].present =>
                  /\ store'[s].present
                  /\ IsPrefix(store[s].history, store'[s].history)]_vars

\* a turn that has called the model and has not yet persisted the session
Generating(t) == ch[t].pc \in {"lpush", "set"}

\* C4: per-session turn serialization - at most one turn of a session is
\* generating at any time.
C4_OneTurnGenerating ==
    \A t1, t2 \in TurnIds :
        (t1 # t2 /\ Generating(t1) /\ Generating(t2)) =>
            ch[t1].msg.session # ch[t2].msg.session

\* a turn whose handler has persisted the session after answering
TurnCompleted(t) ==
    /\ ch[t].pc \in {"close", "end", "tts_done", "ack", "finished"}
    /\ ch[t].engine # <<>>

Started(s) == \E n \in InitIds : ic[n].pc = "done" /\ ic[n].session = s

\* no request of the session is in progress
Quiet(s) ==
    /\ \A n \in InitIds : ic[n].session = s => ic[n].pc \in {"done", "failed"}
    /\ \A t \in TurnIds : ch[t].msg.session = s => ch[t].pc = "finished"
    /\ \A i \in DOMAIN chatq : chatq[i].session # s

CompletedTurns(s) == {t \in TurnIds : TurnCompleted(t) /\ ch[t].msg.session = s}

\* the turn loaded a started session: its history begins with the greeting
AfterStart(t) == Head(ch[t].engine)[1] = P_AI

\* C6: session monotonicity - once a session was started and N chat turns of
\* it have then completed, the persisted history has exactly 2*N + 1 entries.
C6_HistoryLength ==
    \A s \in Sessions :
        (Started(s) /\ Quiet(s) /\ \A t \in CompletedTurns(s) : AfterStart(t)) =>
            /\ store[s].present
            /\ Len(store[s].history) = 2 * Cardinality(CompletedTurns(s)) + 1

\* the data of the `message` events published for chat message t, in
\* publication order
MessageData(t) ==
    LET msgs == SelectSeq(chatResp, LAMBDA p : p.turn = t /\ p.event = "message")
    IN [i \in 1..Len(msgs) |-> msgs[i].data]

\* C9: for every completed chat turn, the concatenation in publication order
\* of the data of its `message` events is exactly the AI reply appended to the
\* session history for that turn (the entry "AI: <reply>").
C9_ChunksReconstructReply ==
    \A t \in TurnIds :
        TurnCompleted(t) =>
            ch[t].engine[Len(ch[t].engine)] = <<P_AI, SP>> \o Concat(MessageData(t))

\* a completed turn that published a `message` and an `end` event, next to
\* another completed turn
C9_Witness ==
    \E t1, t2 \in TurnIds :
        /\ t1 # t2
        /\ ch[t1].pc = "finished" /\ TurnCompleted(t1)
        /\ ch[t2].pc = "finished" /\ TurnCompleted(t2)
        /\ Len(MessageData(t1)) = 1
        /\ \E i \in DOMAIN chatResp : chatResp[i].turn = t1 /\ chatResp[i].event = "end"

\* ------------------------------------------------------------ SSE bridges
\* the payloads bound subscriber u is owed, as the lines it should be sent
LogOf(u) == IF subs[u].kind = "job" THEN results ELSE chatResp

AfterBind(u) == SubSeq(LogOf(u), subs[u].bind + 1, Len(LogOf(u)))

Owed(u) ==
    IF subs[u].kind = "job"
    THEN SelectSeq(AfterBind(u), LAMBDA p : p.job = subs[u].job)
    ELSE LET mine == SelectSeq(AfterBind(u), LAMBDA p : p.session = subs[u].session)
         IN [i \in 1..Len(mine) |-> [event |-> mine[i].event, data |-> mine[i].data]]

LogCap == 2 * MaxJobs

C20_SubscriberIsolation ==
    [][\A u \in SubIds :
        (subs[u].st = "open" /\ Len(subs'[u].sent) > Len(subs[u].sent)) =>
            /\ subs[u].q # <<>>
            /\ subs'[u].sent = Append(subs[u].sent, SseLine(subs[u], Head(subs[u].q)))
            /\ IF subs[u].kind = "job"
               THEN Head(subs[u].q).job = subs[u].job
               ELSE Head(subs[u].q).session = subs[u].session]_vars

\* a subscriber was sent a payload of its own and its bridge has dropped a
\* payload of another job or session published meanwhile
C20_Witness ==
    \E u \in SubIds :
        /\ subs[u].st = "open"
        /\ subs[u].q = <<>>
        /\ Len(subs[u].sent) >= 1
        /\ subs[u].sent = Owed(u)
        /\ Len(AfterBind(u)) > Len(Owed(u))

\* the bridge of subscriber u has written a terminal result of its job
FinalForwarded(u) ==
    /\ subs[u].st = "open" /\ subs[u].kind = "job"
    /\ \E i \in DOMAIN subs[u].sent :
          subs[u].sent[i].rk \in {"task.succeeded", "task.failed"}

\* C21: the job SSE stream terminates - once the terminal result of job J has
\* been forwarded to a subscriber of /events/jobs/J, the stream is eventually
\* closed and its queue destroyed, also when the client never disconnects.
C21_JobStreamTerminates ==
    \A u \in SubIds : FinalForwarded(u) ~> (subs[u].st # "open")

\* C22: malformed results are tolerated - a body that is not JSON is dropped by
\* the bridges and ends no subscriber's stream; what a subscriber has been
\* sent stays the beginning of the well-formed payloads published for it.
C22_MalformedTolerated ==
    \A u \in SubIds :
        /\ subs[u].st # "failed"
        /\ subs[u].st = "open" => IsPrefix(subs[u].sent, Owed(u))

\* C8: per-filter delivery order - what a session subscriber has been sent is,
\* in order, the beginning of what was published for its session_id after it
\* was bound: no two chunks are delivered in the opposite order.
C8_DeliveryOrder ==
    \A u \in SubIds :
        (subs[u].st = "open" /\ subs[u].kind = "session") =>
            IsPrefix(subs[u].sent, Owed(u))

\* a subscriber was sent the replies of two turns of its session, published
\* by two handlers on their own connections
C8_Witness ==
    \E u \in SubIds :
        /\ subs[u].kind = "session"
        /\ Len(subs[u].sent) >= 2
        /\ \E i, k \in DOMAIN chatResp :
              /\ i > subs[u].bind /\ k > i
              /\ chatResp[i].turn # chatResp[k].turn
              /\ chatResp[i].session = subs[u].session
              /\ chatResp[k].session = subs[u].session
              /\ chatResp[i].data # chatResp[k].data
        /\ subs[u].sent[1] # subs[u].sent[2]

\* ---------------------------------------------- the vectorstore collection
\* file hashes: sha256 digests, and the empty value of entries without one
Hashes == {"hA", "hB"}
EMPTY_HASH == ""
FileLists == UNION {[1..n -> Hashes \cup {EMPTY_HASH}] : n \in 0..MaxFiles}

Present(vs) == {v \in VsIds : vs[v].present}
HashesIn(d) == {d.files[i] : i \in DOMAIN d.files}
Occurrences(d, hh) == Len(SelectSeq(d.files, LAMBDA f : f = hh))

\* the file hashes a collection has points of
PointHashes(c) == {c[id] : id \in DOMAIN c}

\* delete_points_by_payload(vs_id, {"file_hash": hh}): a value of None gives
\* no condition and nothing is deleted
DeletePointsByPayload(c, hh) ==
    IF hh = EMPTY_HASH THEN c
    ELSE [id \in {i \in DOMAIN c : c[i] # hh} |-> c[id]]

\* the orders in which the aggregation may read the documents
ScanOrders ==
    {o \in [1..Cardinality(VsIds) -> VsIds] :
        \A i, j \in 1..Cardinality(VsIds) : i # j => o[i] # o[j]}

\* $unwind files, $group by file_hash with ids: {$push: "$_id"}: one id per
\* entry that holds hash hh, in reading order
RECURSIVE GroupIds(_, _, _)
GroupIds(vs, o, hh) ==
    IF o = <<>> THEN <<>>
    ELSE [i \in 1..Occurrences(vs[Head(o)], hh) |-> Head(o)]
             \o GroupIds(vs, Tail(o), hh)

\* count > 1, duplicate_ids = doc["ids"][1:]
DuplicateIds(vs, o, hh) ==
    LET ids == GroupIds(vs, o, hh)
    IN  IF Len(ids) > 1 THEN {ids[i] : i \in 2..Len(ids)} ELSE {}

\* the $match keeps string hashes other than ""; delete_many removes the
\* whole documents named in duplicate_ids
Deduplicated(vs, o) ==
    LET grouped == (UNION {HashesIn(vs[v]) : v \in VsIds}) \ {EMPTY_HASH}
        doomed == UNION {DuplicateIds(vs, o, hh) : hh \in grouped}
    IN  [v \in VsIds |-> IF v \in doomed THEN NoDoc ELSE vs[v]]

\* a unique multikey index on files.file_hash, partial on {$exists: true}:
\* no value of file_hash, the empty one included, in two documents
IndexCreatable(vs) ==
    \A v, w \in Present(vs) :
        v # w => HashesIn(vs[v]) \cap HashesIn(vs[w]) = {}

\* ensure_indexes: the clean-up, then create_index, whose failure is caught
\* and printed; an index that exists stays
EnsureIndexes(o) ==
    /\ vstore' = Deduplicated(vstore, o)
    /\ uniq' = (uniq \/ IndexCreatable(vstore'))

\* POST /files/upload up to the end of ensure_indexes: hash hh of the content,
\* vectorstore_id target (NoVs when the form has none)
UpStart(u, hh, target, o) ==
    /\ up[u].pc = "none"
    /\ EnsureIndexes(o)
    /\ up' = [up EXCEPT ![u] = [@ EXCEPT !.pc = IF target = NoVs THEN "insert" ELSE "find",
                                         !.hash = hh, !.target = target]]
    /\ UNCHANGED <<fabricVars, chatVars, runVars, moreVars, threads, req, vpoints, rag, msgLog>>

\* a collection as an earlier deployment may have left it, no index yet
InitIndex ==
    /\ InitRest
    /\ store = [s \in Sessions |-> NoState]
    /\ vstore \in [VsIds -> {NoDoc} \cup {Doc(f) : f \in FileLists}]
    /\ vpoints = [v \in VsIds |-> NoPoints]
    /\ uniq = FALSE

NextIndex ==
    \E u \in UpIds, hh \in Hashes, target \in VsIds \cup {NoVs}, o \in ScanOrders :
        UpStart(u, hh, target, o)

SpecIndex == InitIndex /\ [][NextIndex]_vars

\* a step in which some request's call of ensure_indexes has completed
EnsureIndexesDone == \E u \in UpIds : up[u].pc = "none" /\ up'[u].pc # "none"

\* no hash other than "" is held by two entries of the collection
NoDuplicateHash(vs) ==
    \A hh \in Hashes :
        /\ \A v \in Present(vs) : Occurrences(vs[v], hh) <= 1
        /\ \A v, w \in Present(vs) :
               v # w => ~(hh \in HashesIn(vs[v]) /\ hh \in HashesIn(vs[w]))

\* the clean-up alone: after ensure_indexes no non-empty hash is registered twice
DedupOnly == [][EnsureIndexesDone => NoDuplicateHash(vstore')]_vars

\* C27: after ensure_indexes completes, no non-empty file_hash is registered
\* more than once in the vectorstore collection, in two documents or twice in
\* one, and the unique index on files.file_hash exists
C27_StartupDedup ==
    [][EnsureIndexesDone => NoDuplicateHash(vstore') /\ uniq']_vars

\* ------------------------------------------------------ POST /files/upload
Pull(d, hh) == [d EXCEPT !.files = SelectSeq(@, LAMBDA f : f # hh)]
Push(d, hh) == [d EXCEPT !.files = Append(@, hh)]

\* the unique index refuses a write that would leave hash hh in document v
\* and in another one
DuplicateKey(v, hh) ==
    uniq /\ \E w \in Present(vstore) \ {v} : hh \in HashesIn(vstore[w])

UpDone(u, status, v) ==
    up' = [up EXCEPT ![u] = [@ EXCEPT !.pc = "done", !.status = status, !.returned = v]]

\* no vectorstore_id: insert_one({"files": [meta]}), the id is a new one
UpInsert(u) ==
    /\ up[u].pc = "insert"
    /\ \E v \in VsIds : ~vstore[v].present
    /\ LET new == CHOOSE v \in VsIds : ~vstore[v].present
       IN  IF DuplicateKey(new, up[u].hash)
           THEN UpDone(u, 500, NoVs) /\ UNCHANGED vstore
           ELSE /\ vstore' = [vstore EXCEPT ![new] = Doc(<<up[u].hash>>)]
                /\ UpDone(u, 200, new)
    /\ UNCHANGED <<fabricVars, chatVars, runVars, moreVars, threads, req, vpoints, uniq, rag, msgLog>>

\* find({"files.file_hash": H}): the documents the cursor will yield, the
\* target skipped
UpFind(u) ==
    /\ up[u].pc = "find"
    /\ up' = [up EXCEPT ![u] = [@ EXCEPT !.pc = "others",
               !.others = {v \in Present(vstore) : up[u].hash \in HashesIn(vstore[v])}
                              \ {up[u].target}]]
    /\ UNCHANGED <<fabricVars, chatVars, runVars, moreVars, threads, req, vstore, vpoints, uniq, rag, msgLog>>

\* one round of the loop: $pull the entry from the other document, then
\* delete_points_by_payload; an exception of the latter is swallowed
UpPullOther(u, v, ok) ==
    /\ up[u].pc = "others"
    /\ v \in up[u].others
    /\ vstore' = [vstore EXCEPT ![v] = Pull(@, up[u].hash)]
    /\ vpoints' = [vpoints EXCEPT ![v] =
                       IF ok THEN DeletePointsByPayload(@, up[u].hash) ELSE @]
    /\ up' = [up EXCEPT ![u] = [@ EXCEPT !.others = @ \ {v}]]
    /\ UNCHANGED <<fabricVars, chatVars, runVars, moreVars, threads, req, uniq, rag, msgLog>>

\* step 4: $pull the hash from the target itself
UpPullOwn(u) ==
    /\ up[u].pc = "others"
    /\ up[u].others = {}
    /\ vstore' = [vstore EXCEPT ![up[u].target] = Pull(@, up[u].hash)]
    /\ up' = [up EXCEPT ![u] = [@ EXCEPT !.pc = "push"]]
    /\ UNCHANGED <<fabricVars, chatVars, runVars, moreVars, threads, req, vpoints, uniq, rag, msgLog>>

\* $push of the new entry: 404 when nothing matched, the response
\* {"vectorstore_id": target_id} when it went through
UpPush(u) ==
    /\ up[u].pc = "push"
    /\ IF ~vstore[up[u].target].present
       THEN UpDone(u, 404, NoVs) /\ UNCHANGED vstore
       ELSE IF DuplicateKey(up[u].target, up[u].hash)
       THEN up' = [up EXCEPT ![u] = [@ EXCEPT !.pc = "cleanup"]] /\ UNCHANGED vstore
       ELSE /\ vstore' = [vstore EXCEPT ![up[u].target] = Push(@, up[u].hash)]
            /\ UpDone(u, 200, up[u].target)
    /\ UNCHANGED <<fabricVars, chatVars, runVars, moreVars, threads, req, vpoints, uniq, rag, msgLog>>

\* except DuplicateKeyError: update_many pulls the hash from every document
UpCleanup(u) ==
    /\ up[u].pc = "cleanup"
    /\ vstore' = [v \in VsIds |-> Pull(vstore[v], up[u].hash)]
    /\ up' = [up EXCEPT ![u] = [@ EXCEPT !.pc = "repush"]]
    /\ UNCHANGED <<fabricVars, chatVars, runVars, moreVars, threads, req, vpoints, uniq, rag, msgLog>>

\* the second $push: its matched_count is not read, a second
\* DuplicateKeyError is not caught
UpRepush(u) ==
    /\ up[u].pc = "repush"
    /\ IF ~vstore[up[u].target].present
       THEN UpDone(u, 200, up[u].target) /\ UNCHANGED vstore
       ELSE IF DuplicateKey(up[u].target, up[u].hash)
       THEN UpDone(u, 500, NoVs) /\ UNCHANGED vstore
       ELSE /\ vstore' = [vstore EXCEPT ![up[u].target] = Push(@, up[u].hash)]
            /\ UpDone(u, 200, up[u].target)
    /\ UNCHANGED <<fabricVars, chatVars, runVars, moreVars, threads, req, vpoints, uniq, rag, msgLog>>

\* the number of chunks a file yields: its content decides
ChunksOf(hh) == IF hh = "hA" THEN 2 ELSE 1

\* upsert_points(vs_id, points, dedup=True): the points whose payload has the
\* file_hash of the first new point are deleted (none when that value is
\* None), then the new points are upserted under the ids 0 .. n-1 that
\* _index_csv_file and _index_plain_text_file give them
UpsertPoints(c, hh, n) ==
    LET kept == DeletePointsByPayload(c, hh)
    IN  [id \in DOMAIN kept \cup 0..(n - 1) |-> IF id < n THEN hh ELSE kept[id]]

\* the loop of index_vectorstore over the files of the document
RECURSIVE IndexFiles(_, _)
IndexFiles(c, files) ==
    IF files = <<>> THEN [points |-> c, indexed |-> 0]
    ELSE LET n == ChunksOf(Head(files))
             r == IndexFiles(UpsertPoints(c, Head(files), n), Tail(files))
         IN  [r EXCEPT !.indexed = @ + n]

\* POST /vectorstores/{id}/index: ensure_indexes, then the chunks of every
\* file of the document are upserted with their file_hash as payload
IndexVectorstore(v, o) ==
    /\ EnsureIndexes(o)
    /\ vstore'[v].present
    /\ LET r == IndexFiles(vpoints[v], vstore'[v].files)
       IN /\ vpoints' = [vpoints EXCEPT ![v] = r.points]
          /\ idx' = [vectorstore_id |-> v, indexed |-> r.indexed]
    /\ vpoints' # vpoints
    /\ UNCHANGED <<fabricVars, chatVars, runVars, assist, ctx, tts, threads, req, up, rag, msgLog>>

\* two vectorstores created by POST /vectorstores, which has built the index;
\* clients upload to vectorstores they were given the id of
InitFiles ==
    /\ InitRest
    /\ store = [s \in Sessions |-> NoState]
    /\ vstore = [v \in VsIds |-> IF v \in {"v1", "v2"} THEN Doc(<<>>) ELSE NoDoc]
    /\ vpoints = [v \in VsIds |-> NoPoints]
    /\ uniq = TRUE

\* a client starts an upload, to a vectorstore that exists or to none
Upload(u) ==
    \E hh \in Hashes, target \in Present(vstore) \cup {NoVs}, o \in ScanOrders :
        UpStart(u, hh, target, o)

NextFiles ==
    \/ \E u \in UpIds : Upload(u)
    \/ \E u \in UpIds : UpInsert(u)
    \/ \E u \in UpIds : UpFind(u)
    \/ \E u \in UpIds, v \in VsIds : UpPullOther(u, v, TRUE)
    \/ \E u \in UpIds : UpPullOwn(u)
    \/ \E u \in UpIds : UpPush(u)
    \/ \E u \in UpIds : UpCleanup(u)
    \/ \E u \in UpIds : UpRepush(u)
    \/ \E v \in VsIds, o \in ScanOrders : IndexVectorstore(v, o)

SpecFiles == InitFiles /\ [][NextFiles]_vars

\* a step in which upload u answers with a vectorstore id
Returns(u) == up[u].status = 0 /\ up'[u].status = 200

\* hash hh is held once by vectorstore v and neither as an entry nor as
\* vector points by any other
HeldOnlyBy(vs, vp, hh, v) ==
    /\ vs[v].present /\ Occurrences(vs[v], hh) = 1
    /\ \A w \in VsIds \ {v} : hh \notin HashesIn(vs[w]) /\ hh \notin PointHashes(vp[w])

\* C26: when an upload of a file with hash H returns vectorstore V, V holds
\* exactly one entry for H and every other vectorstore holds neither an entry
\* nor vector points for H
C26_FileDedup ==
    [][\A u \in UpIds :
          Returns(u) => HeldOnlyBy(vstore', vpoints', up'[u].hash, up'[u].returned)]_vars

\* ------------------------------------------------------------- POST /coach
\* JobRequest: user_id is any string, sub_function any string or absent
UserIds == {"alice", ""}
ABSENT == "absent"
SubFunctionInputs == {"qa", "etc", ABSENT}
\* the sub_function the coach route knows: req.sub_function or "qa"
DEFAULT_SUB_FUNCTION == "qa"

ThreadDoc(id, user_id) == [id |-> id, user_id |-> user_id]

\* uuid4().hex: an id no task and no request holds yet
UsedJobs == {j \in JobIds : submitted[j] # NoMsg} \cup {req[r].job_id : r \in ReqIds}
NewJobId == CHOOSE j \in JobIds \ UsedJobs : \A i \in JobIds \ UsedJobs : j <= i

\* the JobRequest has been parsed and ensure_indexes has run
EnqStart(r, user_id, sub, o) ==
    /\ req[r].pc = "none"
    /\ EnsureIndexes(o)
    /\ req' = [req EXCEPT ![r] = [@ EXCEPT !.pc = "insert", !.user_id = user_id,
                 !.sub_function = IF sub = ABSENT THEN DEFAULT_SUB_FUNCTION ELSE sub]]
    /\ UNCHANGED <<fabricVars, chatVars, runVars, moreVars, threads, vpoints, up, rag, msgLog>>

\* db["threads"].insert_one(doc); the payload is built with a new job_id
EnqInsert(r) ==
    /\ req[r].pc = "insert"
    /\ JobIds \ UsedJobs # {}
    /\ LET id == Cardinality(threads) + 1
       IN  /\ threads' = threads \cup {ThreadDoc(id, req[r].user_id)}
           /\ req' = [req EXCEPT ![r] = [@ EXCEPT !.pc = "publish", !.thread_id = id,
                                                  !.job_id = NewJobId]]
    /\ UNCHANGED <<fabricVars, chatVars, runVars, moreVars, vstore, vpoints, up, uniq, rag, msgLog>>

\* a JobResponse whose job_id is left to its default_factory
JobResponseNewId(q) ==
    [status |-> 200, job_id |-> MaxJobs + 1, thread_id |-> q.thread_id,
     status_url |-> MaxJobs + 1]

\* the JobResponse of the last line of enqueue
JobResponseOf(q) ==
    [status |-> 200, job_id |-> q.job_id, thread_id |-> q.thread_id,
     status_url |-> q.job_id]

ErrorResponse(status) == [NoResponse EXCEPT !.status = status]

\* await rabbitmq.publish_task("coach.request", payload): the broker confirms
\* the message ("confirmed"), or connect/publish raises before the broker has
\* it ("refused") or after it has queued it ("unconfirmed"); an exception is
\* not caught by enqueue and becomes the 500 of the framework
PublishOutcomes == {"confirmed", "refused", "unconfirmed"}
EnqPublish(r, outcome) ==
    /\ req[r].pc = "publish"
    /\ LET msg == [job |-> req[r].job_id, rk |-> RK_COACH, wf |-> TRUE,
                   session |-> NoSession, seller |-> <<>>, redelivered |-> FALSE]
       IN  IF outcome = "refused"
           THEN UNCHANGED <<taskq, submitted>>
           ELSE /\ taskq' = [q \in Queues |->
                        IF q \in Route(RK_COACH) THEN Append(taskq[q], msg) ELSE taskq[q]]
                /\ submitted' = [submitted EXCEPT ![req[r].job_id] = msg]
    /\ req' = [req EXCEPT ![r] =
                 IF outcome = "confirmed"
                 THEN [@ EXCEPT !.pc = "respond"]
                 ELSE [@ EXCEPT !.pc = "done", !.response = ErrorResponse(500)]]
    /\ UNCHANGED <<h, acked, dlq, results, chatResp, simStore, subs, envVars, chatVars,
                   runVars, moreVars, threads, vstore, vpoints, up, uniq, rag, msgLog>>

\* return JobResponse(...)
EnqRespond(r) ==
    /\ req[r].pc = "respond"
    /\ req' = [req EXCEPT ![r] = [@ EXCEPT !.pc = "done", !.response = JobResponseOf(req[r])]]
    /\ UNCHANGED <<fabricVars, chatVars, runVars, moreVars, threads, vstore, vpoints, up, uniq, rag, msgLog>>

Enqueue(r) ==
    \E user_id \in UserIds, sub \in SubFunctionInputs, o \in ScanOrders :
        EnqStart(r, user_id, sub, o)

\* the coach route with the worker of q.coach behind it
NextEnqueue ==
    \/ \E r \in ReqIds : Enqueue(r)
    \/ \E r \in ReqIds : EnqInsert(r)
    \/ \E r \in ReqIds, outcome \in PublishOutcomes : EnqPublish(r, outcome)
    \/ \E r \in ReqIds : EnqRespond(r)
    \/ Deliver(Q_COACH)
    \/ \E j \in JobIds : Dispatch(j, FALSE)
    \/ \E j \in JobIds : PublishSucceeded(j, TRUE)
    \/ AckAny

SpecEnqueue == Init /\ [][NextEnqueue]_vars

\* the task request r published, if the broker has it
Published(r) == req[r].job_id \in JobIds /\ submitted[req[r].job_id] # NoMsg

\* C23: the JobResponse carries the job_id of the Task this request published
\* on coach.request, its URL is /events/jobs/<that job_id>, and its thread_id
\* names the thread record inserted for this request and for no other
C23_DispatcherResponse ==
    \A r \in ReqIds :
        req[r].response.status = 200 =>
            LET resp == req[r].response
            IN  /\ resp.job_id = req[r].job_id
                /\ Published(r)
                /\ submitted[resp.job_id].job = resp.job_id
                /\ submitted[resp.job_id].rk = RK_COACH
                /\ resp.status_url = resp.job_id
                /\ ThreadDoc(resp.thread_id, req[r].user_id) \in threads
                /\ \A r2 \in ReqIds \ {r} :
                       req[r2].thread_id # resp.thread_id /\ req[r2].job_id # resp.job_id

\* the response is out while no worker has taken the task yet
C23_Witness ==
    \E r \in ReqIds :
        /\ req[r].response.status = 200
        /\ req[r].response.job_id \in JobIds
        /\ h[req[r].response.job_id].pc = "none"
        /\ req[r].response.job_id \notin acked

\* the sub_functions of the coach function
CoachSubFunctions == {DEFAULT_SUB_FUNCTION}
Invalid(r) == req[r].user_id = "" \/ req[r].sub_function \notin CoachSubFunctions

\* C24: a submission with an empty user_id or a sub_function outside the
\* whitelist leaves no thread record, publishes no Task and is answered 400
C24_ValidationRejected ==
    \A r \in ReqIds :
        req[r].pc # "none" /\ Invalid(r) =>
            /\ req[r].thread_id = NoThread
            /\ ~Published(r)
            /\ (req[r].pc = "done" => req[r].response.status = 400)

\* C25: a submission ends with the Task accepted by the broker and a success
\* response, or with the error response 503 and no Task in any queue
C25_NeverHalfPublished ==
    \A r \in ReqIds :
        req[r].pc = "done" =>
            \/ req[r].response.status = 200 /\ Published(r)
            \/ req[r].response.status = 503 /\ ~Published(r)

\* ------------------------------------------------------ the analytics log
\* C28: however often a Task is delivered, message_logs holds at most one row
\* for each message of it (the seller's message, the reply, the greeting)
C28_IdempotentRedelivery ==
    \A r1 \in BagToSet(msgLog) :
        /\ CopiesIn(r1, msgLog) = 1
        /\ \A r2 \in BagToSet(msgLog) :
               r1.of = r2.of /\ r1.role = r2.role => r1 = r2

\* ------------------------------------------- chat turns whose model call fails
\* session s1 was started by an earlier sim.start Task: its greeting is stored
\* and logged
STARTED == "s1"
GreetedHistory == AppendHistory(<<>>, "AI", FirstGreeting(<<WORD>>))
InitVendor ==
    /\ InitCore
    /\ simStore = [s \in Sessions |-> IF s = STARTED THEN Stored(GreetedHistory) ELSE NoState]
    /\ msgLog = SetToBag({LogRow(<<"job", NoJob>>, STARTED, "AI", FirstGreeting(<<WORD>>))})
    /\ store = [s \in Sessions |-> NoState]
    /\ vstore = [v \in VsIds |-> NoDoc]
    /\ vpoints = [v \in VsIds |-> NoPoints]
    /\ uniq = FALSE

SubmitChatTask ==
    \E j \in JobIds, s \in Sessions : SubmitTask(j, RK_SIM_CHAT, TRUE, s, <<WORD>>)

\* the simulation worker on sim.chat Tasks; the model call may fail, the
\* broker takes every publish
NextVendor ==
    \/ SubmitChatTask
    \/ Deliver(Q_SIM)
    \/ \E j \in JobIds : SimGet(j)
    \/ \E j \in JobIds : SimNotFound(j, TRUE)
    \/ \E j \in JobIds, out \in LLMOutcomes : SimStream(j, out, TRUE)
    \/ \E j \in JobIds : SimSet(j)
    \/ \E j \in JobIds : SimEnd(j, TRUE)
    \/ AckAny

SpecVendor == InitVendor /\ [][NextVendor]_vars

\* the turn handler j runs has had its model call fail
FailedTurn(j) == h[j].chunk # <<>> /\ Head(h[j].chunk) = FAIL_TOKEN
LastResponse(resp) == resp[Len(resp)]

\* C29: a chat turn whose LLM call fails emits exactly one "message" chunk
\* beginning with the failure text, appends the seller message and that reply
\* to the history, raises nothing, persists the state, sends message_end and
\* is acknowledged
C29_VendorFailureDegraded ==
    [][\A j \in JobIds :
          /\ SimStream(j, NoReply, TRUE) =>
                 /\ Len(chatResp') = Len(chatResp) + 1
                 /\ LastResponse(chatResp').event = "message"
                 /\ LastResponse(chatResp').session = h[j].msg.session
                 /\ LastResponse(chatResp').data # <<>>
                 /\ Head(LastResponse(chatResp').data) = FAIL_TOKEN
                 /\ h'[j].ai = h[j].ai \o <<HistoryEntry("SELLER", h[j].msg.seller),
                                            HistoryEntry("AI", LastResponse(chatResp').data)>>
                 /\ h'[j].pc = "sim_set" /\ ~h'[j].raised
          /\ FailedTurn(j) /\ h[j].pc = "sim_set" /\ h'[j] # h[j] =>
                 /\ simStore'[h[j].msg.session] = Stored(h[j].ai)
                 /\ h'[j].pc = "sim_end"
          /\ FailedTurn(j) /\ h[j].pc = "sim_end" /\ h'[j] # h[j] =>
                 /\ Len(chatResp') = Len(chatResp) + 1
                 /\ LastResponse(chatResp').event = "message_end"
                 /\ h'[j].pc = "ack"
          /\ FailedTurn(j) /\ h[j].pc = "ack" /\ h'[j] # h[j] => j \in acked'
          /\ simStore[STARTED].present => simStore'[STARTED].present]_vars

\* a failed turn was followed by a turn of the same session that the model
\* answered: greeting, seller, failure text, seller, reply
C29_Witness ==
    /\ acked = JobIds
    /\ LET hist == simStore[STARTED].history
       IN  /\ Len(hist) = 5
           /\ hist[3] = HistoryEntry("AI", <<FAIL_TOKEN>>)
           /\ hist[5] = HistoryEntry("AI", <<WORD>>)

\* ------------------------------------------------------------ /rag/query
NO_INFO == "I couldn't find any relevant information in the provided documents."

\* the generation step that is run on whatever the search returned
AnswerWithRagAlways(embed_ok, search_ok, hits, gen_ok) ==
    IF ~embed_ok THEN [answer |-> "Failed to embed prompt", evidence |-> <<>>, generated |-> FALSE]
    ELSE IF ~search_ok THEN [answer |-> "Failed to search Qdrant", evidence |-> <<>>, generated |-> FALSE]
    ELSE IF ~gen_ok THEN [answer |-> "Failed to generate answer", evidence |-> hits, generated |-> TRUE]
    ELSE [answer |-> "answer", evidence |-> hits, generated |-> TRUE]

\* answer_with_rag: embed the prompt, search the collection, leave with the
\* canned answer on no evidence, else generate; generated says whether
\* generate_content was called
AnswerWithRag(embed_ok, search_ok, hits, gen_ok) ==
    IF ~embed_ok THEN [answer |-> "Failed to embed prompt", evidence |-> <<>>, generated |-> FALSE]
    ELSE IF ~search_ok THEN [answer |-> "Failed to search Qdrant", evidence |-> <<>>, generated |-> FALSE]
    ELSE IF hits = <<>> THEN [answer |-> NO_INFO, evidence |-> <<>>, generated |-> FALSE]
    ELSE IF ~gen_ok THEN [answer |-> "Failed to generate answer", evidence |-> hits, generated |-> TRUE]
    ELSE [answer |-> "answer", evidence |-> hits, generated |-> TRUE]

\* qclient.search(limit=top_k): up to top_k points of the collection, best first
Hits(points, top_k) ==
    {hs \in UNION {[1..n -> points] : n \in 0..top_k} :
        /\ \A i, j \in DOMAIN hs : i # j => hs[i] # hs[j]
        /\ Len(hs) = IF Cardinality(points) < top_k THEN Cardinality(points) ELSE top_k}

\* POST /rag/query {prompt, vectorstore_id, top_k}
RagQuery(v, top_k, embed_ok, search_ok, gen_ok) ==
    /\ rag.calls < MaxQueries
    /\ \E hits \in Hits(PointHashes(vpoints[v]), top_k) :
          LET res == AnswerWithRag(embed_ok, search_ok, hits, gen_ok)
          IN  rag' = [calls |-> rag.calls + 1,
                      vectorstore_id |-> v,
                      top_k |-> top_k,
                      generations |-> rag.generations + IF res.generated THEN 1 ELSE 0,
                      retrieval |-> IF ~embed_ok \/ ~search_ok THEN "failed"
                                    ELSE IF hits = <<>> THEN "empty" ELSE "passages",
                      answer |-> res.answer,
                      evidence |-> res.evidence]
    /\ UNCHANGED <<fabricVars, chatVars, runVars, moreVars, threads, req, vstore, vpoints, up, uniq, msgLog>>

RagQueryAny ==
    \E v \in VsIds, top_k \in 0..MaxTopK, embed_ok, search_ok, gen_ok \in BOOLEAN :
        RagQuery(v, top_k, embed_ok, search_ok, gen_ok)

\* two files were uploaded to vectorstore v1, none to v2; nothing is indexed yet
InitRag ==
    /\ InitRest
    /\ store = [s \in Sessions |-> NoState]
    /\ vstore = [v \in VsIds |-> IF v = "v1" THEN Doc(<<"hA", "hB">>)
                                 ELSE IF v = "v2" THEN Doc(<<>>) ELSE NoDoc]
    /\ vpoints = [v \in VsIds |-> NoPoints]
    /\ uniq = TRUE

\* queries against vectorstores that are indexed meanwhile
NextRag ==
    \/ \E v \in VsIds, o \in ScanOrders : IndexVectorstore(v, o)
    \/ RagQueryAny

SpecRag == InitRag /\ [][NextRag]_vars

\* C30: a query whose retrieval returns no passages is answered with the
\* canned text and evidence [] without a generation call, and a generation
\* call is made only by a query that retrieved at least one passage
C30_RagEmptyRetrieval ==
    [][rag'.calls = rag.calls + 1 =>
          /\ rag'.retrieval = "empty" =>
                 /\ rag'.answer = NO_INFO
                 /\ rag'.evidence = <<>>
                 /\ rag'.generations = rag.generations
          /\ rag'.generations # rag.generations =>
                 rag'.retrieval = "passages" /\ rag'.evidence # <<>>]_vars

\* both cases have happened: a query on passages that generated, then one
\* that retrieved nothing
C30_Witness ==
    /\ rag.calls = 2
    /\ rag.generations = 1
    /\ rag.retrieval = "empty"
    /\ rag.answer = NO_INFO

\* ------------------------------------------------ what the clean-up removes
Registered(vs, hh) == \E v \in Present(vs) : hh \in HashesIn(vs[v])
Registrations(vs, hh) ==
    LET RECURSIVE Sum(_)
        Sum(S) == IF S = {} THEN 0
                  ELSE LET v == CHOOSE x \in S : TRUE
                       IN  Occurrences(vs[v], hh) + Sum(S \ {v})
    IN  Sum(Present(vs))

\* C40: every non-empty file_hash registered before ensure_indexes is still
\* registered in some vectorstore afterwards, and a document none of whose
\* hashes was registered twice is left as it was
C40_CleanupKeepsOneCopy ==
    [][EnsureIndexesDone =>
          /\ \A hh \in Hashes : Registered(vstore, hh) => Registered(vstore', hh)
          /\ \A v \in Present(vstore) :
                 (\A hh \in HashesIn(vstore[v]) \ {EMPTY_HASH} : Registrations(vstore, hh) = 1)
                     => vstore'[v] = vstore[v]]_vars

\* ------------------------------------------- persisting the state of a turn
\* await self.redis_client.set(...) raises: the except clause of
\* _handle_chat_message takes over
SimSetFailed(j) ==
    /\ h[j].pc = "sim_set"
    /\ h' = [h EXCEPT ![j].pc = "sim_err", ![j].raised = TRUE]
    /\ UNCHANGED <<taskq, submitted, acked, dlq, results, chatResp, simStore, subs, envVars, chatVars, runVars, apiVars, msgLog>>

\* the simulation worker on sim.chat Tasks with a Redis that may refuse the write
NextPersist ==
    \/ NextVendor
    \/ \E j \in JobIds : SimSetFailed(j)
    \/ \E j \in JobIds : SimErr(j, TRUE)

SpecPersist == InitVendor /\ [][NextPersist]_vars

\* the history holds the last two entries of ai (a turn's seller message and
\* its reply) next to each other
HoldsTurn(history, ai) ==
    /\ Len(ai) >= 2
    /\ \E i \in 1..(Len(history) - 1) :
           history[i] = ai[Len(ai) - 1] /\ history[i + 1] = ai[Len(ai)]

\* C32: when message_end is published for a turn the session store holds a
\* state with that turn's seller message and reply, and a turn whose state
\* could not be persisted publishes error and no message_end
C32_PersistBeforeEnd ==
    [][\A j \in JobIds :
          /\ h[j].pc = "sim_end" /\ h'[j].pc = "ack" =>
                 /\ simStore[h[j].msg.session].present
                 /\ HoldsTurn(simStore[h[j].msg.session].history, h[j].ai)
          /\ h[j].pc = "sim_set" /\ h'[j].pc # "sim_set" /\ simStore' = simStore =>
                 h'[j].pc = "sim_err"
          /\ h[j].pc = "sim_err" /\ h'[j].pc = "ack" =>
                 /\ Len(chatResp') = Len(chatResp) + 1
                 /\ LastResponse(chatResp').event = "error"]_vars

\* ------------------------------------------------ what the stores are given
\* the simulation worker on sim.start and sim.chat Tasks with every fault of
\* a turn: failing model calls, refused publishes, a refused Redis write, the
\* death of the process
SubmitSimTask ==
    \E j \in JobIds :
        \/ SubmitTask(j, RK_SIM_START, TRUE, "s2", <<WORD>>)
        \/ SubmitTask(j, RK_SIM_CHAT, TRUE, STARTED, <<WORD>>)

NextStored ==
    \/ SubmitSimTask
    \/ Deliver(Q_SIM)
    \/ \E j \in JobIds, out \in {<<WORD>>, NoReply} : SimStart(j, out)
    \/ SimGreetAny
    \/ SimGetAny
    \/ \E j \in JobIds, out \in {<<WORD>>, NoReply}, ok \in BOOLEAN : SimStream(j, out, ok)
    \/ SimSetAny
    \/ \E j \in JobIds : SimSetFailed(j)
    \/ \E j \in JobIds : SimEnd(j, TRUE)
    \/ \E j \in JobIds : SimErr(j, TRUE)
    \/ AckAny
    \/ Crash("sim")

SpecStored == InitVendor /\ [][NextStored]_vars

IsAIEntry(e) == e # <<>> /\ Head(e) = P_AI
IsSellerEntry(e) == e # <<>> /\ Head(e) = P_SELLER

\* a history of complete turns: not empty, ending with an AI entry, every
\* seller entry followed by an AI entry
CompleteTurns(history) ==
    /\ history # <<>>
    /\ IsAIEntry(history[Len(history)])
    /\ \A i \in 1..(Len(history) - 1) :
           IsSellerEntry(history[i]) => IsAIEntry(history[i + 1])

\* C34: every state in the session store of the simulation worker has a
\* non-empty history that ends with an AI entry and holds no seller message
\* without the reply of its turn
C34_OnlyCompleteTurns ==
    \A s \in Sessions : simStore[s].present => CompleteTurns(simStore[s].history)

\* the same of the session store of the backend
BackendCompleteTurns ==
    \A s \in Sessions : store[s].present => CompleteTurns(store[s].history)

\* a turn was written after the worker died in the middle of an earlier
\* handling and after a model call failed
C34_Witness ==
    /\ crashes > 0
    /\ \E s \in Sessions :
           /\ simStore[s].present
           /\ Len(simStore[s].history) >= 3
           /\ \E i \in 1..Len(simStore[s].history) :
                  simStore[s].history[i] = HistoryEntry("AI", <<FAIL_TOKEN>>)

\* ------------------------------------------- what the simulation worker acks
\* a key the binding sim.* of q.sim matches and _on_message knows nothing of
RK_SIM_OTHER == <<"sim", "other">>

\* every kind of message q.sim can hold: start, chat and unknown keys, bodies
\* that are not JSON, a chat without seller_msg, sessions present and absent
SubmitAnySimTask ==
    \E j \in JobIds, rk \in {RK_SIM_START, RK_SIM_CHAT, RK_SIM_OTHER}, wf \in BOOLEAN,
       s \in Sessions, seller \in {<<WORD>>, <<>>} :
        /\ (rk = RK_SIM_START => s = "s2" /\ seller = <<WORD>> /\ wf)
        /\ (rk = RK_SIM_OTHER => s = "s2" /\ seller = <<WORD>> /\ wf)
        /\ (~wf => s = "s2" /\ seller = <<WORD>>)
        /\ SubmitTask(j, rk, wf, s, seller)

NextSim ==
    \/ SubmitAnySimTask
    \/ Deliver(Q_SIM)
    \/ \E j \in JobIds, out \in {<<WORD>>, NoReply} : SimStart(j, out)
    \/ SimGreetAny
    \/ SimGetAny
    \/ SimNotFoundAny
    \/ \E j \in JobIds, out \in {<<WORD>>, NoReply}, ok \in BOOLEAN : SimStream(j, out, ok)
    \/ SimSetAny
    \/ \E j \in JobIds : SimSetFailed(j)
    \/ SimEndAny
    \/ SimErrAny
    \/ AckAny
    \/ Crash("sim")

SpecSim == InitVendor /\ [][NextSim]_vars

\* C35: a message delivered from q.sim is never set to be rejected, nothing
\* reaches the dead-letter queue, and a handler ends with the ack of its
\* message unless the process died (when the broker takes the message back)
C35_SimAcksEverything ==
    [][/\ dlq' = dlq
       /\ \A j \in JobIds :
            /\ h'[j].queue = Q_SIM => h'[j].pc # "reject"
            /\ (h[j].queue = Q_SIM /\ Active(j) /\ h'[j] = IdleHandler)
                   => \/ j \in acked' /\ taskq' = taskq
                      \/ crashes' = crashes + 1]_vars

\* acked: a body that is not JSON, and a chat whose handler raised after the
\* reply was generated
C35_Witness ==
    \E i, j \in acked :
        /\ h[i] = IdleHandler /\ h[j] = IdleHandler
        /\ ~submitted[i].wf
        /\ submitted[j].wf /\ submitted[j].rk = RK_SIM_CHAT
        /\ \E k \in 1..Len(chatResp) :
               chatResp[k].event = "error" /\ chatResp[k].data = <<"ERR_GENERATING">>

\* ------------------------------------------------------ the AI_Assist worker
\* the payload of an assist task: vectorstore_id and prompt, each absent,
\* empty or given; what the POST to /rag/query does: answers, answers with an
\* HTTP error status, or fails (connection refused, timeout, body not JSON)
VectorstoreInputs == {ABSENT, "", "v1"}
PromptInputs == {ABSENT, "", "q"}
HttpOutcomes == {"ok", "status", "error"}

REQUIRED_TEXT == "Vector store ID and prompt are required."
HTTP_ERROR_TEXT == "HTTP error occurred"
UNEXPECTED_TEXT == "An unexpected error occurred"
ErrorTexts == {REQUIRED_TEXT, HTTP_ERROR_TEXT, UNEXPECTED_TEXT}

AssistError(text) ==
    [raised |-> FALSE,
     result |-> [answer |-> text, evidence |-> <<>>, sub_function |-> ABSENT]]

\* an assist_run that lets the exceptions of the HTTP call through
assist_run_raising(vs_id, prompt, http) ==
    IF vs_id \in {ABSENT, ""} \/ prompt \in {ABSENT, ""}
    THEN AssistError(REQUIRED_TEXT)
    ELSE IF http = "ok"
         THEN [raised |-> FALSE,
               result |-> [answer |-> "answer", evidence |-> <<"e1">>,
                           sub_function |-> DEFAULT_SUB_FUNCTION]]
         ELSE [AssistError(UNEXPECTED_TEXT) EXCEPT !.raised = TRUE]

\* assist_run(payload): `not vs_id or not prompt` returns at once; the POST
\* and the reading of its answer run under try / except HTTPStatusError /
\* except Exception, each returning the error text as the answer
assist_run(vs_id, prompt, http) ==
    IF vs_id \in {ABSENT, ""} \/ prompt \in {ABSENT, ""}
    THEN AssistError(REQUIRED_TEXT)
    ELSE IF http = "ok"
         THEN [raised |-> FALSE,
               result |-> [answer |-> "answer", evidence |-> <<"e1">>,
                           sub_function |-> DEFAULT_SUB_FUNCTION]]
         ELSE IF http = "status" THEN AssistError(HTTP_ERROR_TEXT)
         ELSE AssistError(UNEXPECTED_TEXT)

\* handle_message of AI_Assist: result = await assist_run(payload)
AssistDispatch(j, vs_id, prompt, http) ==
    /\ h[j].pc = "dispatch"
    /\ h[j].queue = Q_ASSIST
    /\ LET r == assist_run(vs_id, prompt, http)
       IN /\ h' = [h EXCEPT ![j].pc = IF r.raised THEN "pub_fail" ELSE "pub_succ",
                            ![j].raised = r.raised]
          /\ assist' = [assist EXCEPT ![j] =
                          [called |-> TRUE, vectorstore_id |-> vs_id, prompt |-> prompt,
                           http |-> http, raised |-> r.raised, result |-> r.result]]
    /\ UNCHANGED <<taskq, submitted, acked, dlq, results, chatResp, simStore, subs, envVars, chatVars, runVars, threads, req, vstore, vpoints, up, uniq, rag, idx, ctx, tts, msgLog>>

SubmitAssist ==
    \E j \in JobIds, wf \in BOOLEAN : SubmitTask(j, RK_ASSIST, wf, NoSession, <<>>)

NextAssist ==
    \/ SubmitAssist
    \/ Deliver(Q_ASSIST)
    \/ \E j \in JobIds, vs_id \in VectorstoreInputs, prompt \in PromptInputs,
          http \in HttpOutcomes : AssistDispatch(j, vs_id, prompt, http)
    \/ PublishSucceededAny
    \/ PublishFailedAny
    \/ PublishInvalidAny
    \/ AckAny
    \/ RejectAny

SpecAssist == Init /\ [][NextAssist]_vars

\* the call of assist_run could not get an answer of /rag/query
AssistFailing(c) ==
    \/ c.vectorstore_id \in {ABSENT, ""}
    \/ c.prompt \in {ABSENT, ""}
    \/ c.http # "ok"

\* C36: assist_run never raises; a task.succeeded result of a task whose call
\* failed carries an error text as the answer and no evidence; task.failed is
\* published for a body that is not JSON or after the publish of the success
\* result failed
C36_AssistFailuresAsValues ==
    /\ \A j \in JobIds :
          /\ ~assist[j].raised
          /\ (h[j].queue = Q_ASSIST /\ h[j].msg.wf /\ h[j].pc \in {"pub_fail", "reject"})
                 => pubFails > 0
    /\ \A i \in 1..Len(results) :
          /\ results[i].status = "succeeded" =>
                /\ assist[results[i].job].called
                /\ AssistFailing(assist[results[i].job]) =>
                      /\ assist[results[i].job].result.answer \in ErrorTexts
                      /\ assist[results[i].job].result.evidence = <<>>
          /\ results[i].rk = "task.failed" =>
                \/ results[i].error = InvalidJsonError
                \/ pubFails > 0

\* task.succeeded was published for a task whose HTTP call failed and for a
\* task without a vectorstore_id
C36_Witness ==
    \E i, k \in 1..Len(results) :
        /\ results[i].status = "succeeded" /\ results[k].status = "succeeded"
        /\ assist[results[i].job].http # "ok"
        /\ assist[results[i].job].vectorstore_id = "v1"
        /\ assist[results[i].job].prompt = "q"
        /\ assist[results[k].job].vectorstore_id = ABSENT

\* ------------------------------------------------- what indexing leaves stored
\* C39: after POST /vectorstores/{id}/index the collection holds points of
\* every file of the vectorstore, as many points as the answer counts, and a
\* file's points are those of its own chunks
C39_IndexKeepsEveryFile ==
    [][\A v \in VsIds, o \in ScanOrders :
          IndexVectorstore(v, o) =>
              /\ \A hh \in HashesIn(vstore'[v]) :
                     Cardinality({id \in DOMAIN vpoints'[v] : vpoints'[v][id] = hh})
                         = ChunksOf(hh)
              /\ Cardinality(DOMAIN vpoints'[v]) = idx'.indexed]_vars

\* ------------------------------------------------- the context of a turn
\* C33: the context of every turn holds the last five messages of the
\* conversation of the session, the seller's message of the turn included
C33_ContextHoldsLastFive ==
    [][\A j \in JobIds, out \in LLMOutcomes :
          SimStream(j, out, TRUE) =>
              LET conversation == Append(h[j].ai, HistoryEntry("SELLER", h[j].msg.seller))
                  expected == LastN(conversation, CONTEXT_MESSAGES)
              IN  \A i \in DOMAIN expected :
                      \E k \in DOMAIN ctx'[j] : ctx'[j][k] = expected[i]]_vars

\* ------------------------------------------------------------ /tts/live
ttsRest == <<fabricVars, runVars, msgLog, threads, req, vstore, vpoints, up, uniq, rag,
             assist, idx, ctx, chatq, posted, ch, ic, store, closedFlag, ttsDone>>

\* GET /tts/live/{session_id}: streaming_synthesize starts to read
\* _request_iter, which yields the configuration request
TtsOpen(s) ==
    /\ tts.pc = "idle"
    /\ tts' = [tts EXCEPT !.pc = "subscribe", !.session = s]
    /\ UNCHANGED <<ttsRest, ttsQueue>>

\* await pubsub.subscribe(tts_done_flag:<session>): the stream is sent what
\* is published from now on
TtsSubscribe ==
    /\ tts.pc = "subscribe"
    /\ tts' = [tts EXCEPT !.pc = "get", !.base = ttsDone[tts.session]]
    /\ UNCHANGED <<ttsRest, ttsQueue>>

\* message = await pubsub.get_message(timeout=0.01);
\* if message and message['data'] == b'done': break, and the finally block
\* unsubscribes
TtsGetMessage ==
    /\ tts.pc = "get"
    /\ tts' = [tts EXCEPT !.pc = IF ttsDone[tts.session] > tts.base
                                 THEN "ending" ELSE "brpop"]
    /\ UNCHANGED <<ttsRest, ttsQueue>>

\* item = await redis.brpop(tts_queue:<session>, timeout=0.1): the oldest
\* chunk of the list, yielded to the synthesizer, or nothing
TtsBrpop ==
    /\ tts.pc = "brpop"
    /\ LET q == ttsQueue[tts.session]
       IN IF q = <<>>
          THEN /\ tts' = [tts EXCEPT !.pc = "get"]
               /\ UNCHANGED ttsQueue
          ELSE /\ tts' = [tts EXCEPT !.pc = "get", !.sent = Append(@, q[Len(q)])]
               /\ ttsQueue' = [ttsQueue EXCEPT ![tts.session] = SubSeq(q, 1, Len(q) - 1)]
    /\ UNCHANGED ttsRest

\* the request iterator has ended, the audio stream ends: the finally block
\* of _audio_iter deletes tts_queue:<session> and tts_done_flag:<session>
TtsEnd ==
    /\ tts.pc = "ending"
    /\ tts' = [tts EXCEPT !.pc = "ended"]
    /\ ttsQueue' = [ttsQueue EXCEPT ![tts.session] = <<>>]
    /\ UNCHANGED ttsRest

\* chat turns of session s1 and one live stream on it
NextTts ==
    \/ \E t \in TurnIds : PostChat(t, "s1", <<WORD>>)
    \/ ChatDeliver
    \/ HCM_GetAny
    \/ \E t \in TurnIds, out \in {<<WORD>>, NoReply} : HCM_Stream(t, out)
    \/ HCM_LpushAny
    \/ HCM_SetAny
    \/ HCM_TtsDoneAny
    \/ HCM_AckAny
    \/ TtsOpen("s1")
    \/ TtsSubscribe
    \/ TtsGetMessage
    \/ TtsBrpop
    \/ TtsEnd

SpecTts == Init /\ [][NextTts]_vars

\* the handlers and the stream go on when they can; nobody has to post
FairTts ==
    /\ SpecTts
    /\ WF_vars(ChatDeliver) /\ WF_vars(HCM_GetAny)
    /\ WF_vars(\E t \in TurnIds, out \in {<<WORD>>, NoReply} : HCM_Stream(t, out))
    /\ WF_vars(HCM_LpushAny) /\ WF_vars(HCM_SetAny)
    /\ WF_vars(HCM_TtsDoneAny) /\ WF_vars(HCM_AckAny)
    /\ WF_vars(TtsSubscribe) /\ WF_vars(TtsGetMessage)
    /\ WF_vars(TtsBrpop) /\ WF_vars(TtsEnd)

\* the turns of session s that pushed their chunk and have not published
\* `done` yet
TurnsBeforeDone(s) ==
    {t \in TurnIds : ch[t].msg.session = s /\ ch[t].pc \in {"set", "close", "end", "tts_done"}}
\* the turns of session s that published `done`
TurnsDone(s) ==
    {t \in TurnIds : ch[t].msg.session = s /\ ch[t].pc \in {"ack", "finished"}}

\* C37: when the stream reads `done`, the list holds no chunk of a turn that
\* has published `done`: every chunk left belongs to a turn still before it
C37_NoChunkLost ==
    [][(tts.pc = "get" /\ tts'.pc = "ending") =>
           Len(ttsQueue[tts.session]) <= Cardinality(TurnsBeforeDone(tts.session))]_vars

\* C38: once a turn of the session of an open stream has published `done`,
\* the request iterator of the stream ends
C38_StreamEnds ==
    (tts.pc \in {"subscribe", "get", "brpop"} /\ TurnsDone(tts.session) # {})
        ~> (tts.pc \in {"ending", "ended"})

\* ------------------------------------------------- a bridge that falls behind
MaxChunks == 65

\* the chunks the turns of session s1 publish on chat.responses, one after
\* the other: publish_chat_response returns when the broker has the message,
\* whatever the bridges have consumed
PublishChunk ==
    /\ Len(chatResp) < MaxChunks
    /\ PublishChatResponse(TRUE, "s1", <<WORD>>, "message")
    /\ UNCHANGED <<taskVars, envVars, chatVars, runVars, apiVars, msgLog>>

NextLag ==
    \/ PublishChunk
    \/ SubscribeSessionAny
    \/ ForwardAny
    \/ DisconnectAny

SpecLag == Init /\ [][NextLag]_vars

\* C31: a subscription never has more than 64 chunks pending
C31_PendingBounded ==
    \A u \in SubIds : Len(subs[u].q) <= 64

====
